---- MODULE Spec2Model ----
(***************************************************************************)
(* Authentication state manager of IgniteParseAuthKit: the auth reducer,   *)
(* the Parse auth services and the AuthProvider coordinator (modular       *)
(* variant: context/auth/{validation,services,reducer,AuthProvider}).      *)
(*                                                                         *)
(* JavaScript runs every handler to completion up to its next await.  The  *)
(* variable running names the coordinator action that is inside such a     *)
(* synchronous segment; no other action steps until it suspends.           *)
(***************************************************************************)
EXTENDS Integers, Sequences, FiniteSets, TLC

\* ------------------------------------------------------------------ bounds
MaxInFlight == 2
MaxBoot == 1

\* --------------------------------------------------------- program literals
MinPasswordLen == 6
MinUsernameLen == 3

\* Strings whose characters matter are sequences of one-character strings.
Undefined == <<>>
Whitespace == {" "}
UsernameChars ==
    {"a", "b", "c", "d", "e", "f", "g", "h", "i", "j", "k", "l", "m", "n", "o", "p",
     "q", "r", "s", "t", "u", "v", "w", "x", "y", "z", "A", "B", "C", "D", "E", "F",
     "G", "H", "I", "J", "K", "L", "M", "N", "O", "P", "Q", "R", "S", "T", "U", "V",
     "W", "X", "Y", "Z", "0", "1", "2", "3", "4", "5", "6", "7", "8", "9", "_"}
Digit == <<"1", "2", "3", "4">>

\* ------------------------------------------------------------- validation
RECURSIVE StripWhitespace(_)
StripWhitespace(s) ==
    IF s = <<>> THEN <<>>
    ELSE IF Head(s) \in Whitespace THEN StripWhitespace(Tail(s))
         ELSE <<Head(s)>> \o StripWhitespace(Tail(s))

RECURSIVE TrimLeft(_)
TrimLeft(s) ==
    IF s # <<>> /\ Head(s) \in Whitespace THEN TrimLeft(Tail(s)) ELSE s

RECURSIVE TrimRight(_)
TrimRight(s) ==
    IF s # <<>> /\ s[Len(s)] \in Whitespace
    THEN TrimRight(SubSeq(s, 1, Len(s) - 1)) ELSE s

Trim(s) == TrimRight(TrimLeft(s))

\* /^[^\s@]+@[^\s@]+\.[^\s@]+$/ : one "@" at position i > 1, every other
\* character neither whitespace nor "@", and a "." at some j > i + 1, j < Len.
MatchesEmailShape(s) ==
    \E i \in 1..Len(s) :
        /\ i > 1
        /\ s[i] = "@"
        /\ \A k \in 1..Len(s) : k # i => s[k] \notin (Whitespace \cup {"@"})
        /\ \E j \in (i + 2)..(Len(s) - 1) : s[j] = "."

validateEmail(email) ==
    IF Len(email) = 0 THEN "Email can't be blank"
    ELSE IF ~MatchesEmailShape(email) THEN "Must be a valid email address"
    ELSE ""

validatePassword(password) ==
    IF Len(password) = 0 THEN "Password can't be blank"
    ELSE IF Len(password) < MinPasswordLen
         THEN "Password must be at least 6 characters"
    ELSE ""

validateUsername(username) ==
    IF Len(Trim(username)) = 0 THEN "Username can't be blank"
    ELSE IF Len(Trim(username)) < MinUsernameLen
         THEN "Username must be at least 3 characters"
    ELSE IF \E k \in 1..Len(Trim(username)) : Trim(username)[k] \notin UsernameChars
         THEN "Username can only contain letters, numbers, and underscores"
    ELSE ""

\* a || b on validation results ("" stands for undefined)
OrElse(a, b) == IF a # "" THEN a ELSE b

\* ------------------------------------------------------------ user handles
NoUser == [id |-> 0, sessionToken |-> Undefined, username |-> Undefined,
           email |-> Undefined]

GoodEmail == <<"a", "@", "b", ".", "c">>
OtherEmail == <<"b", "@", "b", ".", "c">>
GoodPassword == <<"s", "e", "c", "r", "e", "t">>

\* the account with object id i as the backend returns it
User(i) == [id |-> i, sessionToken |-> <<"r", Digit[i]>>,
            username |-> <<"u", "s", "r", Digit[i]>>,
            email |-> IF i = 1 THEN GoodEmail ELSE OtherEmail]

Users == {User(1), User(2)}

getSessionToken(u) == u.sessionToken
getUsername(u) == u.username
getEmail(u) == u.email

\* ------------------------------------------------------------------ reducer
NoMessage == [set |-> FALSE, email |-> Undefined]

initialAuthState ==
    [authToken |-> Undefined, authEmail |-> <<>>, authPassword |-> <<>>,
     isLoading |-> FALSE, error |-> "", currentUser |-> NoUser,
     username |-> Undefined, resetPasswordMessage |-> NoMessage]

\* a variant whose CLEAR_FORM also drops the user, as RESET_AUTH_STATE does
authReducerClearFormResets(s, action) ==
    CASE action.type = "SET_AUTH_EMAIL" ->
            [s EXCEPT !.authEmail = StripWhitespace(action.payload)]
      [] action.type = "SET_AUTH_PASSWORD" ->
            [s EXCEPT !.authPassword = action.payload]
      [] action.type = "SET_ERROR" ->
            [s EXCEPT !.error = action.payload]
      [] action.type = "SET_AUTH_TOKEN" ->
            [s EXCEPT !.authToken = action.payload]
      [] action.type = "SET_LOADING" ->
            [s EXCEPT !.isLoading = action.payload]
      [] action.type = "SET_CURRENT_USER" ->
            [s EXCEPT !.currentUser = action.payload,
                      !.authToken = getSessionToken(action.payload),
                      !.username = getUsername(action.payload)]
      [] action.type = "SET_RESET_PASSWORD_MESSAGE" ->
            [s EXCEPT !.resetPasswordMessage = action.payload]
      [] action.type = "CLEAR_RESET_MESSAGE" ->
            [s EXCEPT !.resetPasswordMessage = NoMessage]
      [] action.type = "RESET_AUTH_STATE" ->
            [s EXCEPT !.authEmail = <<>>, !.authPassword = <<>>,
                      !.error = "", !.isLoading = FALSE,
                      !.currentUser = NoUser, !.authToken = Undefined,
                      !.username = Undefined,
                      !.resetPasswordMessage = NoMessage]
      [] action.type = "CLEAR_FORM" ->
            [s EXCEPT !.authEmail = <<>>, !.authPassword = <<>>,
                      !.error = "", !.isLoading = FALSE,
                      !.currentUser = NoUser, !.authToken = Undefined,
                      !.username = Undefined,
                      !.resetPasswordMessage = NoMessage]
      [] OTHER -> s

\* a variant whose SET_CURRENT_USER leaves username as it was
authReducerUsernameKept(s, action) ==
    CASE action.type = "SET_AUTH_EMAIL" ->
            [s EXCEPT !.authEmail = StripWhitespace(action.payload)]
      [] action.type = "SET_AUTH_PASSWORD" ->
            [s EXCEPT !.authPassword = action.payload]
      [] action.type = "SET_ERROR" ->
            [s EXCEPT !.error = action.payload]
      [] action.type = "SET_AUTH_TOKEN" ->
            [s EXCEPT !.authToken = action.payload]
      [] action.type = "SET_LOADING" ->
            [s EXCEPT !.isLoading = action.payload]
      [] action.type = "SET_CURRENT_USER" ->
            [s EXCEPT !.currentUser = action.payload,
                      !.authToken = getSessionToken(action.payload)]
      [] action.type = "SET_RESET_PASSWORD_MESSAGE" ->
            [s EXCEPT !.resetPasswordMessage = action.payload]
      [] action.type = "CLEAR_RESET_MESSAGE" ->
            [s EXCEPT !.resetPasswordMessage = NoMessage]
      [] action.type = "RESET_AUTH_STATE" ->
            [s EXCEPT !.authEmail = <<>>, !.authPassword = <<>>,
                      !.error = "", !.isLoading = FALSE,
                      !.currentUser = NoUser, !.authToken = Undefined,
                      !.username = Undefined,
                      !.resetPasswordMessage = NoMessage]
      [] action.type = "CLEAR_FORM" ->
            [s EXCEPT !.authEmail = <<>>, !.authPassword = <<>>,
                      !.error = "", !.isLoading = FALSE,
                      !.resetPasswordMessage = NoMessage]
      [] OTHER -> s

authReducer(s, action) ==
    CASE action.type = "SET_AUTH_EMAIL" ->
            [s EXCEPT !.authEmail = StripWhitespace(action.payload)]
      [] action.type = "SET_AUTH_PASSWORD" ->
            [s EXCEPT !.authPassword = action.payload]
      [] action.type = "SET_ERROR" ->
            [s EXCEPT !.error = action.payload]
      [] action.type = "SET_AUTH_TOKEN" ->
            [s EXCEPT !.authToken = action.payload]
      [] action.type = "SET_LOADING" ->
            [s EXCEPT !.isLoading = action.payload]
      [] action.type = "SET_CURRENT_USER" ->
            [s EXCEPT !.currentUser = action.payload,
                      !.authToken = getSessionToken(action.payload),
                      !.username = getUsername(action.payload)]
      [] action.type = "SET_RESET_PASSWORD_MESSAGE" ->
            [s EXCEPT !.resetPasswordMessage = action.payload]
      [] action.type = "CLEAR_RESET_MESSAGE" ->
            [s EXCEPT !.resetPasswordMessage = NoMessage]
      [] action.type = "RESET_AUTH_STATE" ->
            [s EXCEPT !.authEmail = <<>>, !.authPassword = <<>>,
                      !.error = "", !.isLoading = FALSE,
                      !.currentUser = NoUser, !.authToken = Undefined,
                      !.username = Undefined,
                      !.resetPasswordMessage = NoMessage]
      [] action.type = "CLEAR_FORM" ->
            [s EXCEPT !.authEmail = <<>>, !.authPassword = <<>>,
                      !.error = "", !.isLoading = FALSE,
                      !.resetPasswordMessage = NoMessage]
      [] OTHER -> s

Act(type, payload) == [type |-> type, payload |-> payload]

\* ----------------------------------------------------------- auth services
\* A thrown value: an Error with a message, or something that is not an Error.
Thrown(isError, message) == [isError |-> isError, message |-> message]

\* The substrings the services test with message.includes(...), per message.
Needles(message) ==
    CASE message = "Invalid username/password." -> {"Invalid username/password", "username"}
      [] message = "XMLHttpRequest failed: \"Unable to connect to the Parse API\"" ->
            {"XMLHttpRequest"}
      [] message = "Account already exists for this username." ->
            {"username", "Account already exists"}
      [] message = "no user found with email a@b.c" -> {"no user found with email", "email"}
      [] message = "Failed to fetch user profile: 401" -> {"Failed to fetch"}
      [] message = "Account already exists for this email address." ->
            {"email", "Account already exists"}
      [] message = "username already taken" -> {"username", "taken"}
      [] message = "email already taken" -> {"email", "taken"}
      [] message = "username and email already taken" -> {"username", "email", "taken"}
      [] message = "Account already exists: username taken" ->
            {"username", "taken", "Account already exists"}
      [] message = "Account already exists: email taken" ->
            {"email", "taken", "Account already exists"}
      [] message = "Network Error: Account already exists?" ->
            {"Network Error", "Account already exists"}
      [] message = "Network Error while checking if username is taken" ->
            {"Network Error", "username", "taken"}
      [] message = "ECONNREFUSED while checking if email is taken" ->
            {"ECONNREFUSED", "email", "taken"}
      [] message = "Network Error" -> {"Network Error"}
      [] message = "connect ECONNREFUSED 127.0.0.1:1337" -> {"ECONNREFUSED"}
      [] message = "TypeError: Failed to fetch" -> {"Failed to fetch"}
      [] message = "That name is taken" -> {"taken"}
      [] message = "Cannot sign up user with an empty password." -> {}
      [] OTHER -> {}

Includes(message, needle) == needle \in Needles(message)

IsNetworkSignal(message) ==
    \/ Includes(message, "XMLHttpRequest")
    \/ Includes(message, "Network Error")
    \/ Includes(message, "Failed to fetch")
    \/ Includes(message, "ECONNREFUSED")

CannotConnect == "Cannot connect to server. Please check if the Parse server is running."
ServerNotRunning == "Parse server is not running. Please check your server connection."

Ok(user, message) == [success |-> TRUE, error |-> "", user |-> user, message |-> message]
Fail(error) == [success |-> FALSE, error |-> error, user |-> NoUser, message |-> NoMessage]
NoResult == [success |-> FALSE, error |-> "", user |-> NoUser, message |-> NoMessage]

loginUserCatch(err) ==
    IF ~err.isError THEN "Failed to log in"
    ELSE IF Includes(err.message, "Invalid username/password")
         THEN "Invalid email or password. Please try again."
    ELSE IF IsNetworkSignal(err.message) THEN CannotConnect
    ELSE err.message

\* a variant that looks for a network signal before the duplicate signals
signUpUserCatchNetworkFirst(err) ==
    IF ~err.isError THEN "Failed to sign up"
    ELSE IF IsNetworkSignal(err.message) THEN CannotConnect
    ELSE IF Includes(err.message, "username") /\ Includes(err.message, "taken")
         THEN "Username is already taken. Please choose another one."
    ELSE IF Includes(err.message, "email") /\ Includes(err.message, "taken")
         THEN "Email is already registered. Please use another email or try logging in."
    ELSE IF Includes(err.message, "Account already exists")
         THEN "An account with this email already exists. Please try logging in."
    ELSE err.message

signUpUserCatch(err) ==
    IF ~err.isError THEN "Failed to sign up"
    ELSE IF Includes(err.message, "username") /\ Includes(err.message, "taken")
         THEN "Username is already taken. Please choose another one."
    ELSE IF Includes(err.message, "email") /\ Includes(err.message, "taken")
         THEN "Email is already registered. Please use another email or try logging in."
    ELSE IF Includes(err.message, "Account already exists")
         THEN "An account with this email already exists. Please try logging in."
    ELSE IF IsNetworkSignal(err.message) THEN CannotConnect
    ELSE err.message

signInWithGoogleCatch(err) ==
    IF ~err.isError THEN "Failed to sign in with Google"
    ELSE IF IsNetworkSignal(err.message) THEN CannotConnect
    ELSE err.message

requestPasswordResetCatch(err) ==
    IF ~err.isError THEN "Failed to request password reset"
    ELSE IF Includes(err.message, "no user found with email")
         THEN "No account found with this email address."
    ELSE IF Includes(err.message, "email adapter")
         THEN "Email service is not configured. Please contact support."
    ELSE IF IsNetworkSignal(err.message) THEN CannotConnect
    ELSE err.message

Transitions == {"login", "signUp", "google", "reset"}
Tasks == Transitions \cup {"logout", "check"}

\* The synchronous head of each service: "" when it goes on to the probe,
\* otherwise the error it returns at once.
NoResponse == [type |-> "undefined", idToken |-> FALSE, accessToken |-> FALSE]
NoArgs == [email |-> <<>>, password |-> <<>>, username |-> <<>>, response |-> NoResponse]

\* a variant that forgets the password check
loginUserValidateEmailOnly(a) == validateEmail(a.email)

loginUserValidate(a) ==
    OrElse(validateEmail(a.email), validatePassword(a.password))

signUpUserValidate(a) ==
    OrElse(validateEmail(a.email),
           OrElse(validatePassword(a.password), validateUsername(a.username)))

\* a variant that looks at the tokens only, not at the response type
signInWithGoogleValidateTokensOnly(a) ==
    IF ~a.response.idToken \/ ~a.response.accessToken
    THEN "Incomplete authentication data. Please try signing in again."
    ELSE ""

\* a variant that rejects a success response only when both tokens are
\* missing
signInWithGoogleValidateBothMissing(a) ==
    IF a.response.type # "success"
    THEN "Google authentication was cancelled or failed"
    ELSE IF ~a.response.idToken /\ ~a.response.accessToken
         THEN "Incomplete authentication data. Please try signing in again."
    ELSE ""

signInWithGoogleValidate(a) ==
    IF a.response.type # "success"
    THEN "Google authentication was cancelled or failed"
    ELSE IF ~a.response.idToken \/ ~a.response.accessToken
         THEN "Incomplete authentication data. Please try signing in again."
    ELSE ""

requestPasswordResetValidate(a) == validateEmail(a.email)

ServiceValidate(t, a) ==
    CASE t = "login" -> loginUserValidate(a)
      [] t = "signUp" -> signUpUserValidate(a)
      [] t = "google" -> signInWithGoogleValidate(a)
      [] t = "reset" -> requestPasswordResetValidate(a)

\* ------------------------------------------------------------------- state
VARIABLES
    state,               \* useReducer(authReducer, initialAuthState)
    persistedAuthToken,  \* MMKV "AuthProvider.authToken"
    persistedUserData,   \* MMKV "AuthProvider.userData"
    deps,                \* the persisted values the boot effect last ran with
    parseCurrent,        \* the user Parse.User.currentAsync() holds
    pc,                  \* position of each coordinator action
    args,                \* the inputs its service was called with
    result,              \* what its service returned
    calls,               \* the outside calls made by the invocation so far
    running,             \* the action inside a synchronous segment, or "none"
    boot,                \* the runs of initializeAuth in flight, oldest first
    session,             \* history: "live"; "loggedOut" since logout() was called;
                         \* "restarted" once the app restarted after that logout
                         \* returned and nothing has signed in since
    alertQueueManager    \* the static fields of AlertQueueManager, and the
                         \* dialogs Alert.alert has put on the screen

vars == <<state, persistedAuthToken, persistedUserData, deps, parseCurrent,
          pc, args, result, calls, running, boot, session, alertQueueManager>>

\* the static initializers of AlertQueueManager; nothing is on the screen
NoAlerts == [queue |-> <<>>, isShowing |-> FALSE, currentAlert |-> <<>>,
             shown |-> <<>>]

NoData == [objectId |-> 0, sessionToken |-> Undefined, username |-> Undefined,
           email |-> Undefined]

\* PersistedUserData as persistUserData derives it from a user
Snapshot(user) ==
    [objectId |-> user.id, sessionToken |-> getSessionToken(user),
     username |-> getUsername(user), email |-> getEmail(user)]

\* a variant that looks at the token only
isAuthenticatedTokenOnly(s) == s.authToken # Undefined

isAuthenticated(s) == s.currentUser # NoUser \/ s.authToken # Undefined

BootSlots == 1..MaxBoot
Remove(seq, i) == SubSeq(seq, 1, i - 1) \o SubSeq(seq, i + 1, Len(seq))

\* initializeAuth up to its first await, for the persisted values it closes over
initializeAuthStart(token, data) ==
    IF token # Undefined /\ data # NoData
    THEN <<[pc |-> "current", token |-> token]>>
    ELSE <<>>

Init ==
    /\ state = initialAuthState
    /\ persistedAuthToken = Undefined
    /\ persistedUserData = NoData
    /\ deps = <<Undefined, NoData>>
    /\ parseCurrent = NoUser
    /\ pc = [t \in Tasks |-> IF t = "check" THEN "current" ELSE "idle"]
    /\ args = [t \in Tasks |-> NoArgs]
    /\ result = [t \in Tasks |-> NoResult]
    /\ calls = [t \in Tasks |-> <<>>]
    /\ running = "none"
    /\ alertQueueManager = NoAlerts
    /\ boot = <<>>
    /\ session = "live"

Dispatch(action) == state' = authReducer(state, action)

InFlight == Cardinality({t \in Tasks : pc[t] # "idle"})

\* Scheduling of the JavaScript event loop.  A settled promise resumes its
\* awaiting function in a microtask, before any other event is handled; React
\* then commits and runs a pending effect; only then is the next event (a UI
\* call, a network completion, a restart) taken.
MicrotaskPending == \E t \in Tasks : pc[t] \in {"resolved", "returned"}
Microtask == running = "none"
EffectPending ==
    /\ deps # <<persistedAuthToken, persistedUserData>>
    /\ Len(boot) < MaxBoot
Event == running = "none" /\ ~MicrotaskPending /\ ~EffectPending

\* ---------------------------------------------------- inputs of the UI
EmailInputs == {<<"a", " ", "@", "b", ".", "c">>}
PasswordInputs == {GoodPassword}
ResetEmailInputs == {<<"a", "@", "b">>, GoodEmail}
UsernameInputs == {<<"a", "b">>, <<" ">> \o getUsername(User(1))}
ResponseInputs ==
    {[type |-> "cancel", idToken |-> FALSE, accessToken |-> FALSE],
     [type |-> "success", idToken |-> TRUE, accessToken |-> FALSE],
     [type |-> "success", idToken |-> TRUE, accessToken |-> TRUE]}
TokenInputs == {Undefined, getSessionToken(User(2))}

\* ------------------------------------------- lightweight action wrappers
Frame == UNCHANGED <<alertQueueManager, persistedAuthToken, persistedUserData, deps, parseCurrent,
                     pc, args, result, calls, running, boot, session>>

setAuthEmail(email) ==
    /\ Event
    /\ Dispatch(Act("SET_AUTH_EMAIL", email))
    /\ Frame

setAuthPassword(password) ==
    /\ Event
    /\ Dispatch(Act("SET_AUTH_PASSWORD", password))
    /\ Frame

setAuthToken(token) ==
    /\ Event
    /\ Dispatch(Act("SET_AUTH_TOKEN", token))
    /\ persistedAuthToken' = token
    /\ session' = IF token # Undefined THEN "live" ELSE session
    /\ UNCHANGED <<alertQueueManager, persistedUserData, deps, parseCurrent, pc, args, result,
                   calls, running, boot>>

clearResetMessage ==
    /\ Event
    /\ Dispatch(Act("CLEAR_RESET_MESSAGE", <<>>))
    /\ Frame

resetAuthState ==
    /\ Event
    /\ Dispatch(Act("RESET_AUTH_STATE", <<>>))
    /\ Frame

clearForm ==
    /\ Event
    /\ Dispatch(Act("CLEAR_FORM", <<>>))
    /\ Frame

setError(error) ==
    /\ Event
    /\ Dispatch(Act("SET_ERROR", error))
    /\ Frame

\* ------------------------------- login / signUp / googleSignIn / reset
\* The call: the closure's form fields and the caller's arguments are bound
\* and SET_LOADING(true) is dispatched.
CallArgs(t, username, response, email) ==
    CASE t = "login" ->
            [NoArgs EXCEPT !.email = state.authEmail, !.password = state.authPassword]
      [] t = "signUp" ->
            [NoArgs EXCEPT !.email = state.authEmail, !.password = state.authPassword,
                           !.username = username]
      [] t = "google" -> [NoArgs EXCEPT !.response = response]
      [] t = "reset" -> [NoArgs EXCEPT !.email = email]

StartSession(t) == IF t \in {"login", "signUp", "google"} THEN "live" ELSE session

Start(t, username, response, email) ==
    /\ Event
    /\ pc[t] = "idle"
    /\ InFlight < MaxInFlight
    /\ args' = [args EXCEPT ![t] = CallArgs(t, username, response, email)]
    /\ Dispatch(Act("SET_LOADING", TRUE))
    /\ pc' = [pc EXCEPT ![t] = "clearError"]
    /\ running' = t
    /\ session' = StartSession(t)
    /\ UNCHANGED <<alertQueueManager, persistedAuthToken, persistedUserData, deps, parseCurrent,
                   result, calls, boot>>

login == Start("login", <<>>, NoResponse, <<>>)
signUp(username) == Start("signUp", username, NoResponse, <<>>)
googleSignIn(response) == Start("google", <<>>, response, <<>>)
requestPasswordResetAction(email) == Start("reset", <<>>, NoResponse, email)

StepFrame == UNCHANGED <<alertQueueManager, persistedAuthToken, persistedUserData, deps, parseCurrent,
                         args, result, calls, running, boot, session>>

\* a variant that goes to the service without dispatching SET_ERROR("")
StepClearErrorSkipped(t) ==
    /\ running = t
    /\ pc[t] = "clearError"
    /\ pc' = [pc EXCEPT ![t] = IF t = "reset" THEN "clearMessage" ELSE "service"]
    /\ UNCHANGED <<alertQueueManager, state, persistedAuthToken, persistedUserData, deps, parseCurrent,
                   args, result, calls, running, boot, session>>

StepClearError(t) ==
    /\ running = t
    /\ pc[t] = "clearError"
    /\ Dispatch(Act("SET_ERROR", ""))
    /\ pc' = [pc EXCEPT ![t] = IF t = "reset" THEN "clearMessage" ELSE "service"]
    /\ StepFrame

\* a variant that calls the service without dispatching CLEAR_RESET_MESSAGE
StepClearMessageSkipped(t) ==
    /\ running = t
    /\ pc[t] = "clearMessage"
    /\ pc' = [pc EXCEPT ![t] = "service"]
    /\ UNCHANGED <<alertQueueManager, state, persistedAuthToken, persistedUserData, deps, parseCurrent,
                   args, result, calls, running, boot, session>>

StepClearMessage(t) ==
    /\ running = t
    /\ pc[t] = "clearMessage"
    /\ Dispatch(Act("CLEAR_RESET_MESSAGE", <<>>))
    /\ pc' = [pc EXCEPT ![t] = "service"]
    /\ StepFrame

\* The service is called: it validates and either returns at once or awaits
\* checkParseServerConnection().
StepService(t) ==
    /\ running = t
    /\ pc[t] = "service"
    /\ IF ServiceValidate(t, args[t]) # ""
       THEN /\ result' = [result EXCEPT ![t] = Fail(ServiceValidate(t, args[t]))]
            /\ pc' = [pc EXCEPT ![t] = "resolved"]
            /\ calls' = calls
       ELSE /\ calls' = calls
            /\ pc' = [pc EXCEPT ![t] = "await"]
            /\ result' = result
    /\ running' = "none"
    /\ UNCHANGED <<alertQueueManager, state, persistedAuthToken, persistedUserData, deps,
                   parseCurrent, args, boot, session>>

\* ---- what the outside world answers while a service awaits
Profile(ok, sub, email, name) == [ok |-> ok, sub |-> sub, email |-> email, name |-> name]
ProfileInputs ==
    {Profile(FALSE, <<>>, <<>>, <<>>),
     Profile(TRUE, <<"s">>, getEmail(User(1)), <<" ">> \o getUsername(User(1)))}

Returns(account) == [kind |-> "user", account |-> account, err |-> Thrown(FALSE, "")]
Throws(err) == [kind |-> "throw", account |-> NoUser, err |-> err]

BackendErrors(t) ==
    CASE t = "login" -> {Thrown(TRUE, "Invalid username/password."), Thrown(FALSE, "")}
      [] t = "signUp" -> {Thrown(TRUE, "Account already exists for this username.")}
      [] t = "google" ->
            {Thrown(TRUE, "XMLHttpRequest failed: \"Unable to connect to the Parse API\"")}
      [] t = "reset" -> {Thrown(TRUE, "no user found with email a@b.c")}

\* probe: what checkParseServerConnection() returns; profile: what the Google
\* userinfo endpoint answers; backend: how the Parse call settles.
Answers(t) ==
    [probe : BOOLEAN,
     profile : IF t = "google" THEN ProfileInputs ELSE {Profile(FALSE, <<>>, <<>>, <<>>)},
     backend : {Throws(e) : e \in BackendErrors(t)}
               \cup (IF t = "reset" THEN {Returns(NoUser)} ELSE {Returns(u) : u \in Users})]

Outcome(r, c) == [result |-> r, calls |-> c]

\* an outside call, whether it went well (reachable, HTTP ok, no throw) and,
\* for the profile fetch, the fields the answer carried
Call(op, ok) == [op |-> op, ok |-> ok, got |-> {}]

ProbeDown == <<Call("probe", FALSE)>>
ProbeUp == <<Call("probe", TRUE)>>
ProfileFields(profile) == {f \in {"sub", "email", "name"} : profile[f] # <<>>}
Fetched(profile) == <<[Call("fetch", profile.ok) EXCEPT !.got = ProfileFields(profile)]>>
Backend(answer) == <<Call("backend", answer.kind # "throw")>>

\* a variant that calls Parse.User.logIn whatever the probe said
loginUserUngated(a, ext) ==
    IF loginUserValidate(a) # "" THEN Outcome(Fail(loginUserValidate(a)), <<>>)
    ELSE IF ext.backend.kind = "throw"
         THEN Outcome(Fail(loginUserCatch(ext.backend.err)),
                      <<Call("probe", ext.probe)>> \o Backend(ext.backend))
    ELSE Outcome(Ok(ext.backend.account, NoMessage),
                 <<Call("probe", ext.probe)>> \o Backend(ext.backend))

loginUser(a, ext) ==
    IF loginUserValidate(a) # "" THEN Outcome(Fail(loginUserValidate(a)), <<>>)
    ELSE IF ~ext.probe THEN Outcome(Fail(ServerNotRunning), ProbeDown)
    ELSE IF ext.backend.kind = "throw"
         THEN Outcome(Fail(loginUserCatch(ext.backend.err)),
                      ProbeUp \o Backend(ext.backend))
    ELSE Outcome(Ok(ext.backend.account, NoMessage), ProbeUp \o Backend(ext.backend))

signUpUser(a, ext) ==
    IF signUpUserValidate(a) # "" THEN Outcome(Fail(signUpUserValidate(a)), <<>>)
    ELSE IF ~ext.probe THEN Outcome(Fail(ServerNotRunning), ProbeDown)
    ELSE IF ext.backend.kind = "throw"
         THEN Outcome(Fail(signUpUserCatch(ext.backend.err)),
                      ProbeUp \o Backend(ext.backend))
    ELSE Outcome(Ok([ext.backend.account EXCEPT !.username = Trim(a.username),
                                                !.email = a.email], NoMessage),
                 ProbeUp \o Backend(ext.backend))

\* a variant that does not require the profile's name
ProfileErrorNameUnchecked(profile) ==
    IF ~profile.ok THEN "Failed to fetch user profile: 401"
    ELSE IF profile.sub = <<>> THEN "Google ID (sub) not found in user profile"
    ELSE IF profile.email = <<>>
         THEN "Required user information missing from Google profile"
    ELSE ""

\* what the code after the profile fetch throws for a profile, "" if nothing
ProfileError(profile) ==
    IF ~profile.ok THEN "Failed to fetch user profile: 401"
    ELSE IF profile.sub = <<>> THEN "Google ID (sub) not found in user profile"
    ELSE IF profile.email = <<>> \/ profile.name = <<>>
         THEN "Required user information missing from Google profile"
    ELSE ""

signInWithGoogle(a, ext) ==
    IF signInWithGoogleValidate(a) # ""
    THEN Outcome(Fail(signInWithGoogleValidate(a)), <<>>)
    ELSE IF ~ext.probe THEN Outcome(Fail(ServerNotRunning), ProbeDown)
    ELSE IF ProfileError(ext.profile) # ""
         THEN Outcome(Fail(signInWithGoogleCatch(Thrown(TRUE, ProfileError(ext.profile)))),
                      ProbeUp \o Fetched(ext.profile))
    ELSE IF ext.backend.kind = "throw"
         THEN Outcome(Fail(signInWithGoogleCatch(ext.backend.err)),
                      ProbeUp \o Fetched(ext.profile) \o Backend(ext.backend))
    ELSE Outcome(Ok([ext.backend.account EXCEPT !.username = Trim(ext.profile.name),
                                                !.email = ext.profile.email], NoMessage),
                 ProbeUp \o Fetched(ext.profile) \o Backend(ext.backend))

ResetMessage(email) == [set |-> TRUE, email |-> email]

requestPasswordReset(a, ext) ==
    IF requestPasswordResetValidate(a) # ""
    THEN Outcome(Fail(requestPasswordResetValidate(a)), <<>>)
    ELSE IF ~ext.probe THEN Outcome(Fail(ServerNotRunning), ProbeDown)
    ELSE IF ext.backend.kind = "throw"
         THEN Outcome(Fail(requestPasswordResetCatch(ext.backend.err)),
                      ProbeUp \o Backend(ext.backend))
    ELSE Outcome(Ok(NoUser, ResetMessage(a.email)), ProbeUp \o Backend(ext.backend))

\* The backend answers with the account the request names: logIn finds the
\* account by its email, signUp creates the account with the trimmed
\* username, Google sign-in links the account named by the profile.
Plausible(t, a, ext) ==
    ext.backend.kind = "user" =>
        CASE t = "login" -> getEmail(ext.backend.account) = a.email
          [] t = "signUp" -> getUsername(ext.backend.account) = Trim(a.username)
          [] t = "google" -> getUsername(ext.backend.account) = Trim(ext.profile.name)
          [] OTHER -> TRUE

Service(t, a, ext) ==
    CASE t = "login" -> loginUser(a, ext)
      [] t = "signUp" -> signUpUser(a, ext)
      [] t = "google" -> signInWithGoogle(a, ext)
      [] t = "reset" -> requestPasswordReset(a, ext)

\* The awaited service settles: its probe, profile fetch and Parse call have
\* been answered by ext.  A Parse call that returns a user also makes it the
\* SDK's current user.
ServiceReturn(t, ext) ==
    /\ Event
    /\ pc[t] = "await"
    /\ Plausible(t, args[t], ext)
    /\ result' = [result EXCEPT ![t] = Service(t, args[t], ext).result]
    /\ calls' = [calls EXCEPT ![t] = Service(t, args[t], ext).calls]
    /\ parseCurrent' = IF Service(t, args[t], ext).result.user # NoUser
                       THEN Service(t, args[t], ext).result.user
                       ELSE parseCurrent
    /\ pc' = [pc EXCEPT ![t] = "resolved"]
    /\ UNCHANGED <<alertQueueManager, state, persistedAuthToken, persistedUserData, deps, args,
                   running, boot, session>>

\* a variant that adopts result.user without looking at result.success
AfterResultAlwaysAdopts(t) ==
    IF t \in {"login", "signUp", "google", "check"} THEN "adopt"
    ELSE IF result[t].success /\ result[t].message # NoMessage THEN "setMessage"
         ELSE IF result[t].error # "" THEN "setError"
         ELSE "finally"

\* The awaiting coordinator action resumes with the service's result.
AfterResult(t) ==
    IF t \in {"login", "signUp", "google", "check"}
    THEN IF result[t].success /\ result[t].user # NoUser THEN "adopt"
         ELSE IF result[t].error # "" THEN "setError"
         ELSE "finally"
    ELSE IF result[t].success /\ result[t].message # NoMessage THEN "setMessage"
         ELSE IF result[t].error # "" THEN "setError"
         ELSE "finally"

Resume(t) ==
    /\ Microtask
    /\ t \in Transitions
    /\ pc[t] = "resolved"
    /\ running' = t
    /\ pc' = [pc EXCEPT ![t] = AfterResult(t)]
    /\ UNCHANGED <<alertQueueManager, state, persistedAuthToken, persistedUserData, deps, parseCurrent,
                   args, result, calls, boot, session>>

StepAdopt(t) ==
    /\ running = t
    /\ pc[t] = "adopt"
    /\ Dispatch(Act("SET_CURRENT_USER", result[t].user))
    /\ pc' = [pc EXCEPT ![t] = "persistToken"]
    /\ session' = IF t \in Transitions THEN "live" ELSE session
    /\ UNCHANGED <<alertQueueManager, persistedAuthToken, persistedUserData, deps, parseCurrent,
                   args, result, calls, running, boot>>

\* a variant of persistUserData that writes the snapshot first
StepPersistSnapshotFirst(t) ==
    /\ running = t
    /\ pc[t] = "persistToken"
    /\ persistedUserData' = Snapshot(result[t].user)
    /\ pc' = [pc EXCEPT ![t] = "persistData"]
    /\ UNCHANGED <<alertQueueManager, state, persistedAuthToken, deps, parseCurrent, args, result,
                   calls, running, boot, session>>

\* persistUserData(user): the token, then the snapshot
StepPersistToken(t) ==
    /\ running = t
    /\ pc[t] = "persistToken"
    /\ persistedAuthToken' = getSessionToken(result[t].user)
    /\ pc' = [pc EXCEPT ![t] = "persistData"]
    /\ UNCHANGED <<alertQueueManager, state, persistedUserData, deps, parseCurrent, args, result,
                   calls, running, boot, session>>

\* a variant whose snapshot also carries the password of the form
StepPersistDataWithPassword(t) ==
    /\ running = t
    /\ pc[t] = "persistData"
    /\ persistedUserData' = [f \in DOMAIN NoData \cup {"password"} |->
                                IF f = "password" THEN args[t].password
                                ELSE Snapshot(result[t].user)[f]]
    /\ pc' = [pc EXCEPT ![t] = IF t = "check" THEN "returned" ELSE "clearForm"]
    /\ running' = IF t = "check" THEN "none" ELSE running
    /\ UNCHANGED <<alertQueueManager, state, persistedAuthToken, deps, parseCurrent, args, result,
                   calls, boot, session>>

StepPersistData(t) ==
    /\ running = t
    /\ pc[t] = "persistData"
    /\ persistedUserData' = Snapshot(result[t].user)
    /\ pc' = [pc EXCEPT ![t] = IF t = "check" THEN "returned" ELSE "clearForm"]
    /\ running' = IF t = "check" THEN "none" ELSE running
    /\ UNCHANGED <<alertQueueManager, state, persistedAuthToken, deps, parseCurrent, args, result,
                   calls, boot, session>>

\* a variant that returns without dispatching CLEAR_FORM
StepClearFormSkipped(t) ==
    /\ running = t
    /\ pc[t] = "clearForm"
    /\ pc' = [pc EXCEPT ![t] = "finally"]
    /\ UNCHANGED <<alertQueueManager, state, persistedAuthToken, persistedUserData, deps, parseCurrent,
                   args, result, calls, running, boot, session>>

StepClearForm(t) ==
    /\ running = t
    /\ pc[t] = "clearForm"
    /\ Dispatch(Act("CLEAR_FORM", <<>>))
    /\ pc' = [pc EXCEPT ![t] = "finally"]
    /\ StepFrame

StepSetMessage(t) ==
    /\ running = t
    /\ pc[t] = "setMessage"
    /\ Dispatch(Act("SET_RESET_PASSWORD_MESSAGE", result[t].message))
    /\ pc' = [pc EXCEPT ![t] = "finally"]
    /\ StepFrame

\* a variant that leaves state.error alone when the service failed
StepSetErrorDropped(t) ==
    /\ running = t
    /\ pc[t] = "setError"
    /\ pc' = [pc EXCEPT ![t] = IF t = "logout" THEN "returned" ELSE "finally"]
    /\ running' = IF t = "logout" THEN "none" ELSE running
    /\ UNCHANGED <<alertQueueManager, state, persistedAuthToken, persistedUserData, deps, parseCurrent,
                   args, result, calls, boot, session>>

StepSetError(t) ==
    /\ running = t
    /\ pc[t] = "setError"
    /\ Dispatch(Act("SET_ERROR", result[t].error))
    /\ pc' = [pc EXCEPT ![t] = IF t = "logout" THEN "returned" ELSE "finally"]
    /\ running' = IF t = "logout" THEN "none" ELSE running
    /\ UNCHANGED <<alertQueueManager, persistedAuthToken, persistedUserData, deps, parseCurrent,
                   args, result, calls, boot, session>>

\* a variant whose SET_LOADING(false) sits at the end of the try block's
\* success branch instead of in a finally
StepFinallyOnSuccessOnly(t) ==
    /\ running = t
    /\ pc[t] = "finally"
    /\ state' = IF result[t].success
                 THEN authReducer(state, Act("SET_LOADING", FALSE)) ELSE state
    /\ pc' = [pc EXCEPT ![t] = "returned"]
    /\ running' = "none"
    /\ UNCHANGED <<alertQueueManager, persistedAuthToken, persistedUserData, deps, parseCurrent,
                   args, result, calls, boot, session>>

\* finally { dispatch SET_LOADING false }, and the action returns the result
StepFinally(t) ==
    /\ running = t
    /\ pc[t] = "finally"
    /\ Dispatch(Act("SET_LOADING", FALSE))
    /\ pc' = [pc EXCEPT ![t] = "returned"]
    /\ running' = "none"
    /\ UNCHANGED <<alertQueueManager, persistedAuthToken, persistedUserData, deps, parseCurrent,
                   args, result, calls, boot, session>>

\* the caller takes the returned result
Ack(t) ==
    /\ Microtask
    /\ pc[t] = "returned"
    /\ pc' = [pc EXCEPT ![t] = "idle"]
    /\ args' = [args EXCEPT ![t] = NoArgs]
    /\ result' = [result EXCEPT ![t] = NoResult]
    /\ calls' = [calls EXCEPT ![t] = <<>>]
    /\ UNCHANGED <<alertQueueManager, state, persistedAuthToken, persistedUserData, deps, parseCurrent,
                   running, boot, session>>

\* ------------------------------------------------------------------ logout
logout ==
    /\ Event
    /\ pc["logout"] = "idle"
    /\ InFlight < MaxInFlight
    /\ persistedAuthToken' = Undefined
    /\ pc' = [pc EXCEPT !["logout"] = "eraseData"]
    /\ running' = "logout"
    /\ session' = "loggedOut"
    /\ UNCHANGED <<alertQueueManager, state, persistedUserData, deps, parseCurrent, args, result,
                   calls, boot>>

\* a variant that leaves the snapshot for later
StepEraseDataSkipped ==
    /\ running = "logout"
    /\ pc["logout"] = "eraseData"
    /\ pc' = [pc EXCEPT !["logout"] = "resetState"]
    /\ UNCHANGED <<alertQueueManager, state, persistedAuthToken, persistedUserData, deps, parseCurrent,
                   args, result, calls, running, boot, session>>

StepEraseData ==
    /\ running = "logout"
    /\ pc["logout"] = "eraseData"
    /\ persistedUserData' = NoData
    /\ pc' = [pc EXCEPT !["logout"] = "resetState"]
    /\ UNCHANGED <<alertQueueManager, state, persistedAuthToken, deps, parseCurrent, args, result,
                   calls, running, boot, session>>

StepResetState ==
    /\ running = "logout"
    /\ pc["logout"] = "resetState"
    /\ Dispatch(Act("RESET_AUTH_STATE", <<>>))
    /\ pc' = [pc EXCEPT !["logout"] = "callLogout"]
    /\ StepFrame

\* logoutUser() is entered and awaits Parse.User.logOut()
StepCallLogout ==
    /\ running = "logout"
    /\ pc["logout"] = "callLogout"
    /\ calls' = calls
    /\ pc' = [pc EXCEPT !["logout"] = "backend"]
    /\ running' = "none"
    /\ UNCHANGED <<alertQueueManager, state, persistedAuthToken, persistedUserData, deps, parseCurrent,
                   args, result, boot, session>>

\* Parse.User.logOut() settles.  When it throws, the SDK may or may not have
\* dropped its cached current user; logoutUser swallows the exception.
LogoutOutcomes == {"ok", "threwCleared", "threwKept"}

\* a variant without the inner try/catch: a throw reaches the outer catch
logoutUserRethrows(outcome) ==
    /\ Event
    /\ pc["logout"] = "backend"
    /\ parseCurrent' = IF outcome = "threwKept" THEN parseCurrent ELSE NoUser
    /\ result' = [result EXCEPT !["logout"] =
            IF outcome = "ok" THEN Ok(NoUser, NoMessage) ELSE Fail("Failed to log out")]
    /\ calls' = [calls EXCEPT !["logout"] = <<Call("backend", outcome = "ok")>>]
    /\ pc' = [pc EXCEPT !["logout"] = "resolved"]
    /\ UNCHANGED <<alertQueueManager, state, persistedAuthToken, persistedUserData, deps, args,
                   running, boot, session>>

logoutUserReturn(outcome) ==
    /\ Event
    /\ pc["logout"] = "backend"
    /\ parseCurrent' = IF outcome = "threwKept" THEN parseCurrent ELSE NoUser
    /\ result' = [result EXCEPT !["logout"] = Ok(NoUser, NoMessage)]
    /\ calls' = [calls EXCEPT !["logout"] = <<Call("backend", outcome = "ok")>>]
    /\ pc' = [pc EXCEPT !["logout"] = "resolved"]
    /\ UNCHANGED <<alertQueueManager, state, persistedAuthToken, persistedUserData, deps, args,
                   running, boot, session>>

ResumeLogout ==
    /\ Microtask
    /\ pc["logout"] = "resolved"
    /\ IF result["logout"].error # ""
       THEN /\ pc' = [pc EXCEPT !["logout"] = "setError"]
            /\ running' = "logout"
       ELSE /\ pc' = [pc EXCEPT !["logout"] = "returned"]
            /\ running' = running
    /\ UNCHANGED <<alertQueueManager, state, persistedAuthToken, persistedUserData, deps, parseCurrent,
                   args, result, calls, boot, session>>

\* -------------------------------------------------------- checkCurrentUser
checkCurrentUser ==
    /\ Event
    /\ pc["check"] = "idle"
    /\ InFlight < MaxInFlight
    /\ pc' = [pc EXCEPT !["check"] = "current"]
    /\ session' = "live"
    /\ UNCHANGED <<alertQueueManager, state, persistedAuthToken, persistedUserData, deps, parseCurrent,
                   args, result, calls, running, boot>>

\* getCurrentUser(): Parse.User.currentAsync() settles; a throw becomes null
CurrentOutcomes == {"value", "throw"}

getCurrentUserReturn(outcome) ==
    /\ Event
    /\ pc["check"] = "current"
    /\ result' = [result EXCEPT !["check"] =
            IF outcome = "value" /\ parseCurrent # NoUser
            THEN Ok(parseCurrent, NoMessage) ELSE NoResult]
    /\ pc' = [pc EXCEPT !["check"] = "resolved"]
    /\ UNCHANGED <<alertQueueManager, state, persistedAuthToken, persistedUserData, deps, parseCurrent,
                   args, calls, running, boot, session>>

ResumeCheck ==
    /\ Microtask
    /\ pc["check"] = "resolved"
    /\ IF result["check"].user # NoUser
       THEN /\ pc' = [pc EXCEPT !["check"] = "adopt"]
            /\ running' = "check"
       ELSE /\ pc' = [pc EXCEPT !["check"] = "returned"]
            /\ running' = running
    /\ UNCHANGED <<alertQueueManager, state, persistedAuthToken, persistedUserData, deps, parseCurrent,
                   args, result, calls, boot, session>>

\* ------------------------------------------------- boot restore (useEffect)
\* The effect runs after a render in which a persisted value differs from the
\* one it last ran with.
BootEffect ==
    /\ running = "none" /\ ~MicrotaskPending
    /\ EffectPending
    /\ deps' = <<persistedAuthToken, persistedUserData>>
    /\ boot' = boot \o initializeAuthStart(persistedAuthToken, persistedUserData)
    /\ UNCHANGED <<alertQueueManager, state, persistedAuthToken, persistedUserData, parseCurrent, pc,
                   args, result, calls, running, session>>

\* a variant of step 1 that goes on to restoreUserSession whatever it got
BootCurrentReturnNoFastPath(i, outcome) ==
    /\ Event
    /\ i <= Len(boot)
    /\ boot[i].pc = "current"
    /\ boot' = [boot EXCEPT ![i].pc = "become"]
    /\ UNCHANGED <<alertQueueManager, state, persistedAuthToken, persistedUserData, deps, parseCurrent,
                   pc, args, result, calls, running, session>>

\* step 1: Parse.User.currentAsync() settles
BootCurrentReturn(i, outcome) ==
    /\ Event
    /\ i <= Len(boot)
    /\ boot[i].pc = "current"
    /\ IF outcome = "value" /\ parseCurrent # NoUser
          /\ getSessionToken(parseCurrent) = boot[i].token
       THEN /\ Dispatch(Act("SET_CURRENT_USER", parseCurrent))
            /\ boot' = Remove(boot, i)
       ELSE /\ boot' = [boot EXCEPT ![i].pc = "become"]
            /\ state' = state
    /\ UNCHANGED <<alertQueueManager, persistedAuthToken, persistedUserData, deps, parseCurrent, pc,
                   args, result, calls, running, session>>

\* step 2: restoreUserSession(token) settles with the user of that session,
\* or with null
BootRestored(i, account) ==
    /\ Event
    /\ i <= Len(boot)
    /\ boot[i].pc = "become"
    /\ getSessionToken(account) = boot[i].token
    /\ parseCurrent' = account
    /\ state' = authReducer(authReducer(state, Act("SET_AUTH_TOKEN", boot[i].token)),
                            Act("SET_CURRENT_USER", account))
    /\ boot' = Remove(boot, i)
    /\ UNCHANGED <<alertQueueManager, persistedAuthToken, persistedUserData, deps, pc, args, result,
                   calls, running, session>>

\* a variant that reports the failed restore in state.error
BootRestoreFailedReported(i) ==
    /\ Event
    /\ i <= Len(boot)
    /\ boot[i].pc = "become"
    /\ persistedAuthToken' = Undefined
    /\ persistedUserData' = NoData
    /\ Dispatch(Act("SET_ERROR", "Failed to restore user session"))
    /\ boot' = Remove(boot, i)
    /\ UNCHANGED <<alertQueueManager, deps, parseCurrent, pc, args, result, calls, running, session>>

BootRestoreFailed(i) ==
    /\ Event
    /\ i <= Len(boot)
    /\ boot[i].pc = "become"
    /\ persistedAuthToken' = Undefined
    /\ persistedUserData' = NoData
    /\ boot' = Remove(boot, i)
    /\ UNCHANGED <<alertQueueManager, state, deps, parseCurrent, pc, args, result, calls, running,
                   session>>

\* ----------------------------------------------------------------- restart
\* The app is closed and opened again: a new AuthProvider mounts over the same
\* MMKV store and the same Parse cache, and both mount effects start.
Restart ==
    /\ Event
    /\ state' = initialAuthState
    /\ deps' = <<persistedAuthToken, persistedUserData>>
    /\ boot' = initializeAuthStart(persistedAuthToken, persistedUserData)
    /\ pc' = [t \in Tasks |-> IF t = "check" THEN "current" ELSE "idle"]
    /\ args' = [t \in Tasks |-> NoArgs]
    /\ result' = [t \in Tasks |-> NoResult]
    /\ calls' = [t \in Tasks |-> <<>>]
    /\ session' = IF session # "loggedOut" THEN session
                   ELSE IF pc["logout"] = "idle" THEN "restarted" ELSE "live"
    /\ UNCHANGED <<alertQueueManager, persistedAuthToken, persistedUserData, parseCurrent, running>>

\* -------------------------------------------------------------------- spec
\* The life of a session: sign in with the form, token overrides, state
\* resets, logout, restarts and the two mount effects.
NextSession ==
    \/ \E e \in EmailInputs : setAuthEmail(e)
    \/ \E p \in PasswordInputs : setAuthPassword(p)
    \/ \E k \in TokenInputs : setAuthToken(k)
    \/ resetAuthState
    \/ clearForm
    \/ login
    \/ StepClearError("login")
    \/ StepService("login")
    \/ \E ext \in Answers("login") : ServiceReturn("login", ext)
    \/ Resume("login")
    \/ \E t \in Tasks : StepAdopt(t)
    \/ \E t \in Tasks : StepPersistToken(t)
    \/ \E t \in Tasks : StepPersistData(t)
    \/ StepClearForm("login")
    \/ StepSetError("login")
    \/ StepFinally("login")
    \/ \E t \in Tasks : Ack(t)
    \/ logout
    \/ StepEraseData
    \/ StepResetState
    \/ StepCallLogout
    \/ \E o \in LogoutOutcomes : logoutUserReturn(o)
    \/ ResumeLogout
    \/ checkCurrentUser
    \/ \E o \in CurrentOutcomes : getCurrentUserReturn(o)
    \/ ResumeCheck
    \/ BootEffect
    \/ \E i \in BootSlots, o \in CurrentOutcomes : BootCurrentReturn(i, o)
    \/ \E i \in BootSlots, a \in Users : BootRestored(i, a)
    \/ \E i \in BootSlots : BootRestoreFailed(i)
    \/ Restart

SpecSession == Init /\ [][NextSession]_vars

\* The four state transitions racing each other and the form helpers, within
\* one mount.
NextTransitions ==
    \/ \E e \in EmailInputs : setAuthEmail(e)
    \/ \E p \in PasswordInputs : setAuthPassword(p)
    \/ \E m \in {"custom"} : setError(m)
    \/ clearResetMessage
    \/ resetAuthState
    \/ clearForm
    \/ login
    \/ \E u \in UsernameInputs : signUp(u)
    \/ \E r \in ResponseInputs : googleSignIn(r)
    \/ \E e \in ResetEmailInputs : requestPasswordResetAction(e)
    \/ \E t \in Transitions : StepClearError(t)
    \/ StepClearMessage("reset")
    \/ \E t \in Transitions : StepService(t)
    \/ \E t \in Transitions : \E ext \in Answers(t) : ServiceReturn(t, ext)
    \/ \E t \in Transitions : Resume(t)
    \/ \E t \in Transitions : StepAdopt(t)
    \/ \E t \in Transitions : StepPersistToken(t)
    \/ \E t \in Transitions : StepPersistData(t)
    \/ \E t \in Transitions : StepClearForm(t)
    \/ StepSetMessage("reset")
    \/ \E t \in Transitions : StepSetError(t)
    \/ \E t \in Transitions : StepFinally(t)
    \/ \E t \in Tasks : Ack(t)
    \/ \E o \in CurrentOutcomes : getCurrentUserReturn(o)
    \/ ResumeCheck
    \/ BootEffect
    \/ \E i \in BootSlots, o \in CurrentOutcomes : BootCurrentReturn(i, o)
    \/ \E i \in BootSlots, a \in Users : BootRestored(i, a)
    \/ \E i \in BootSlots : BootRestoreFailed(i)

SpecTransitions == Init /\ [][NextTransitions]_vars

\* The microtask queue always runs the continuation of a settled await.
Continue(t) ==
    \/ Resume(t) \/ StepAdopt(t) \/ StepPersistToken(t) \/ StepPersistData(t)
    \/ StepClearForm(t) \/ StepSetMessage(t) \/ StepSetError(t) \/ StepFinally(t)

SpecTransitionsFair ==
    SpecTransitions /\ WF_vars(\E t \in Transitions : Continue(t))

\* ------------------------------------------------- the services, one call
\* at a time, over a wide range of arguments and answers.  The mount has
\* finished its boot; it is signed out or signed in as User(2), and the form
\* holds any of the e-mails and passwords below.
WideEmails == {<<>>, <<"a", "@", "b">>, GoodEmail}
WidePasswords == {<<>>, <<"1", "2", "3", "4", "5">>, GoodPassword}
WideUsernames ==
    {<<>>, <<"a", "b">>, <<"a", "-", "b">>, <<" ">> \o getUsername(User(1))}
WideResponses ==
    {[type |-> ty, idToken |-> FALSE, accessToken |-> FALSE] :
        ty \in {"undefined", "cancel", "dismiss", "opened", "locked", "error"}}
    \cup {[type |-> "error", idToken |-> TRUE, accessToken |-> TRUE]}
    \cup [type : {"success"}, idToken : BOOLEAN, accessToken : BOOLEAN]
WideProfiles ==
    {Profile(FALSE, <<>>, <<>>, <<>>),
     Profile(TRUE, <<>>, getEmail(User(1)), getUsername(User(1))),
     Profile(TRUE, <<"s">>, <<>>, getUsername(User(1))),
     Profile(TRUE, <<"s">>, getEmail(User(1)), <<>>),
     Profile(TRUE, <<"s">>, getEmail(User(1)), <<" ">> \o getUsername(User(1)))}
WideAnswers(t) ==
    [probe : BOOLEAN,
     profile : IF t = "google" THEN WideProfiles ELSE {Profile(FALSE, <<>>, <<>>, <<>>)},
     backend : {Throws(e) : e \in BackendErrors(t) \cup {Thrown(FALSE, "")}}
               \cup (IF t = "reset" THEN {Returns(NoUser)} ELSE {Returns(u) : u \in Users})]

InitServices ==
    /\ \E u \in {NoUser, User(2)}, e \in WideEmails, p \in WidePasswords :
          /\ state = authReducer(authReducer(authReducer(initialAuthState,
                          Act("SET_CURRENT_USER", u)),
                          Act("SET_AUTH_EMAIL", e)),
                          Act("SET_AUTH_PASSWORD", p))
          /\ persistedAuthToken = getSessionToken(u)
          /\ persistedUserData = Snapshot(u)
          /\ deps = <<getSessionToken(u), Snapshot(u)>>
          /\ parseCurrent = u
    /\ pc = [t \in Tasks |-> "idle"]
    /\ args = [t \in Tasks |-> NoArgs]
    /\ result = [t \in Tasks |-> NoResult]
    /\ calls = [t \in Tasks |-> <<>>]
    /\ running = "none"
    /\ alertQueueManager = NoAlerts
    /\ boot = <<>>
    /\ session = "live"

NextServices ==
    \/ InFlight = 0 /\ login
    \/ \E u \in WideUsernames : InFlight = 0 /\ signUp(u)
    \/ \E r \in WideResponses : InFlight = 0 /\ googleSignIn(r)
    \/ \E e \in WideEmails : InFlight = 0 /\ requestPasswordResetAction(e)
    \/ \E t \in Transitions : StepClearError(t)
    \/ StepClearMessage("reset")
    \/ \E t \in Transitions : StepService(t)
    \/ \E t \in Transitions : \E ext \in WideAnswers(t) : ServiceReturn(t, ext)
    \/ \E t \in Transitions : Resume(t)
    \/ \E t \in Transitions : StepAdopt(t)
    \/ \E t \in Transitions : StepPersistToken(t)
    \/ \E t \in Transitions : StepPersistData(t)
    \/ \E t \in Transitions : StepClearForm(t)
    \/ StepSetMessage("reset")
    \/ \E t \in Transitions : StepSetError(t)
    \/ \E t \in Transitions : StepFinally(t)
    \/ \E t \in Transitions : Ack(t)
    \/ BootEffect
    \/ \E i \in BootSlots, o \in CurrentOutcomes : BootCurrentReturn(i, o)
    \/ \E i \in BootSlots, u \in Users : BootRestored(i, u)
    \/ \E i \in BootSlots : BootRestoreFailed(i)

SpecServices == InitServices /\ [][NextServices]_vars

\* ------------------------------------------------- one mount's boot: the
\* boot effect and the on-mount checkCurrentUser, over every combination of
\* persisted token, persisted snapshot and cached current user.  Expired is
\* an account whose session the backend has revoked: Parse.User.become never
\* returns it.
Expired == User(3)
BootUsers == Users \cup {Expired}
BootTokens == {Undefined} \cup {getSessionToken(u) : u \in BootUsers}
BootSnapshots == {NoData} \cup {Snapshot(u) : u \in BootUsers}
BootCaches == {NoUser} \cup BootUsers

InitBoot ==
    /\ state = initialAuthState
    /\ persistedAuthToken \in BootTokens
    /\ persistedUserData \in BootSnapshots
    /\ deps = <<persistedAuthToken, persistedUserData>>
    /\ parseCurrent \in BootCaches
    /\ pc = [t \in Tasks |-> IF t = "check" THEN "current" ELSE "idle"]
    /\ args = [t \in Tasks |-> NoArgs]
    /\ result = [t \in Tasks |-> NoResult]
    /\ calls = [t \in Tasks |-> <<>>]
    /\ running = "none"
    /\ alertQueueManager = NoAlerts
    /\ boot = initializeAuthStart(persistedAuthToken, persistedUserData)
    /\ session = "live"

NextBoot ==
    \/ \E o \in CurrentOutcomes : getCurrentUserReturn(o)
    \/ ResumeCheck
    \/ StepAdopt("check")
    \/ StepPersistToken("check")
    \/ StepPersistData("check")
    \/ Ack("check")
    \/ BootEffect
    \/ \E i \in BootSlots, o \in CurrentOutcomes : BootCurrentReturn(i, o)
    \/ \E i \in BootSlots, a \in Users : BootRestored(i, a)
    \/ \E i \in BootSlots : BootRestoreFailed(i)

SpecBoot == InitBoot /\ [][NextBoot]_vars

\* Every step of a boot is the completion of an awaited promise, a microtask
\* or an effect: the event loop runs each of them.
SpecBootFair == SpecBoot /\ WF_vars(NextBoot)

\* The same mount when nothing outside fails: currentAsync() returns the
\* cached user and Parse.User.become fails for a revoked token only.
Valid(token) == \E u \in Users : getSessionToken(u) = token

NextBootCalm ==
    \/ getCurrentUserReturn("value")
    \/ ResumeCheck
    \/ StepAdopt("check")
    \/ StepPersistToken("check")
    \/ StepPersistData("check")
    \/ Ack("check")
    \/ BootEffect
    \/ \E i \in BootSlots : BootCurrentReturn(i, "value")
    \/ \E i \in BootSlots, a \in Users : BootRestored(i, a)
    \/ \E i \in BootSlots : i <= Len(boot) /\ ~Valid(boot[i].token) /\ BootRestoreFailed(i)

SpecBootCalm == InitBoot /\ [][NextBootCalm]_vars /\ WF_vars(NextBootCalm)

\* The boot effect and then checkCurrentUser, each run to its end before the
\* next starts, as functions of the mount m = [state, token, data, cache].
Account(token) == CHOOSE u \in Users : getSessionToken(u) = token

initializeAuthRun(m) ==
    IF m.token # Undefined /\ m.data # NoData
    THEN IF m.cache # NoUser /\ getSessionToken(m.cache) = m.token
         THEN [m EXCEPT !.state = authReducer(@, Act("SET_CURRENT_USER", m.cache))]
         ELSE IF Valid(m.token)
              THEN [m EXCEPT !.state = authReducer(authReducer(@,
                                           Act("SET_AUTH_TOKEN", m.token)),
                                           Act("SET_CURRENT_USER", Account(m.token))),
                             !.cache = Account(m.token)]
              ELSE [m EXCEPT !.token = Undefined, !.data = NoData]
    ELSE m

checkCurrentUserRun(m) ==
    IF m.cache # NoUser
    THEN [m EXCEPT !.state = authReducer(@, Act("SET_CURRENT_USER", m.cache)),
                   !.token = getSessionToken(m.cache),
                   !.data = Snapshot(m.cache)]
    ELSE m

\* the effect runs again for persisted values it has not run with
BootThenCheck(token, data, cache) ==
    LET a == initializeAuthRun([state |-> initialAuthState, token |-> token,
                                data |-> data, cache |-> cache])
        b == checkCurrentUserRun(a)
        c == IF <<b.token, b.data>> # <<a.token, a.data>> THEN initializeAuthRun(b) ELSE b
    IN  <<c.state.currentUser, c.state.authToken, c.state.username, c.token, c.data>>

\* ------------------------------------------------- the reducer alone: any
\* action, from any AuthState whose form is in use
ReducerUsers == {NoUser} \cup Users
ReducerStates ==
    [authToken : {getSessionToken(u) : u \in ReducerUsers},
     authEmail : {GoodEmail},
     authPassword : {GoodPassword},
     isLoading : {TRUE},
     error : {"custom"},
     currentUser : ReducerUsers,
     username : {getUsername(u) : u \in ReducerUsers},
     resetPasswordMessage : {ResetMessage(GoodEmail)}]

InitReducer ==
    /\ state \in ReducerStates
    /\ persistedAuthToken = Undefined
    /\ persistedUserData = NoData
    /\ deps = <<Undefined, NoData>>
    /\ parseCurrent = NoUser
    /\ pc = [t \in Tasks |-> "idle"]
    /\ args = [t \in Tasks |-> NoArgs]
    /\ result = [t \in Tasks |-> NoResult]
    /\ calls = [t \in Tasks |-> <<>>]
    /\ running = "none"
    /\ alertQueueManager = NoAlerts
    /\ boot = <<>>
    /\ session = "live"

dispatch(action) ==
    /\ Dispatch(action)
    /\ Frame

NextReducer ==
    \/ \E e \in EmailInputs \cup WideEmails : dispatch(Act("SET_AUTH_EMAIL", e))
    \/ \E p \in WidePasswords : dispatch(Act("SET_AUTH_PASSWORD", p))
    \/ \E m \in {"", "custom"} : dispatch(Act("SET_ERROR", m))
    \/ \E u \in ReducerUsers : dispatch(Act("SET_AUTH_TOKEN", getSessionToken(u)))
    \/ \E l \in BOOLEAN : dispatch(Act("SET_LOADING", l))
    \/ \E u \in ReducerUsers : dispatch(Act("SET_CURRENT_USER", u))
    \/ dispatch(Act("SET_RESET_PASSWORD_MESSAGE", ResetMessage(GoodEmail)))
    \/ dispatch(Act("CLEAR_RESET_MESSAGE", <<>>))
    \/ dispatch(Act("RESET_AUTH_STATE", <<>>))
    \/ dispatch(Act("CLEAR_FORM", <<>>))
    \/ dispatch(Act("NOT_AN_ACTION", <<>>))

SpecReducer == InitReducer /\ [][NextReducer]_vars

\* ------------------------------------------------- signUp against a
\* backend that rejects the account with any of the messages below
SignUpErrors ==
    {Thrown(TRUE, m) : m \in
        {"Account already exists for this username.",
         "Account already exists for this email address.",
         "username already taken",
         "email already taken",
         "username and email already taken",
         "Account already exists: username taken",
         "Account already exists: email taken",
         "Network Error: Account already exists?",
         "Network Error while checking if username is taken",
         "ECONNREFUSED while checking if email is taken",
         "XMLHttpRequest failed: \"Unable to connect to the Parse API\"",
         "Network Error",
         "connect ECONNREFUSED 127.0.0.1:1337",
         "TypeError: Failed to fetch",
         "That name is taken",
         "Cannot sign up user with an empty password."}}
    \cup {Thrown(FALSE, "")}

SignUpAnswers ==
    [probe : BOOLEAN,
     profile : {Profile(FALSE, <<>>, <<>>, <<>>)},
     backend : {Throws(e) : e \in SignUpErrors} \cup {Returns(u) : u \in Users}]

NextSignUpErrors ==
    \/ \E u \in WideUsernames : InFlight = 0 /\ signUp(u)
    \/ StepClearError("signUp")
    \/ StepService("signUp")
    \/ \E ext \in SignUpAnswers : ServiceReturn("signUp", ext)
    \/ Resume("signUp")
    \/ StepAdopt("signUp")
    \/ StepPersistToken("signUp")
    \/ StepPersistData("signUp")
    \/ StepClearForm("signUp")
    \/ StepSetError("signUp")
    \/ StepFinally("signUp")
    \/ Ack("signUp")
    \/ BootEffect
    \/ \E i \in BootSlots, o \in CurrentOutcomes : BootCurrentReturn(i, o)
    \/ \E i \in BootSlots, u \in Users : BootRestored(i, u)
    \/ \E i \in BootSlots : BootRestoreFailed(i)

SpecSignUpErrors == InitServices /\ [][NextSignUpErrors]_vars

\* ------------------------------------------------- the monolithic
\* AuthProvider of AuthContext.tsx: what one invocation of each of its actions
\* dispatches with SET_ERROR ("" if nothing) and what it returns, for
\* arguments a and the answers ext of the outside world.  Its catch blocks are
\* the ones of the services.
Told(dispatched, r) == [dispatched |-> dispatched, result |-> r]

loginMonolithic(a, ext) ==
    IF OrElse(validateEmail(a.email), validatePassword(a.password)) # ""
    THEN Told(OrElse(validateEmail(a.email), validatePassword(a.password)),
              Fail(OrElse(validateEmail(a.email), validatePassword(a.password))))
    ELSE IF ~ext.probe THEN Told(ServerNotRunning, Fail(ServerNotRunning))
    ELSE IF ext.backend.kind = "throw"
         THEN Told(loginUserCatch(ext.backend.err), Fail(loginUserCatch(ext.backend.err)))
    ELSE Told("", Ok(NoUser, NoMessage))

signUpMonolithic(a, ext) ==
    LET invalid == OrElse(validateEmail(a.email),
                          OrElse(validatePassword(a.password),
                                 validateUsername(a.username)))
    IN  IF invalid # "" THEN Told(invalid, Fail(invalid))
        ELSE IF ~ext.probe THEN Told(ServerNotRunning, Fail(ServerNotRunning))
        ELSE IF ext.backend.kind = "throw"
             THEN Told(signUpUserCatch(ext.backend.err),
                       Fail(signUpUserCatch(ext.backend.err)))
        ELSE Told("", Ok(NoUser, NoMessage))

googleSignInMonolithic(a, ext) ==
    IF a.response.type # "success"
    THEN Told("Google authentication was cancelled or failed",
              Fail("Google authentication was cancelled or failed"))
    ELSE IF ~a.response.idToken \/ ~a.response.accessToken
         THEN Told("Incomplete authentication data received from Google",
                   Fail("Incomplete authentication data. Please try signing in again."))
    ELSE IF ~ext.probe THEN Told(ServerNotRunning, Fail(ServerNotRunning))
    ELSE IF ProfileError(ext.profile) # ""
         THEN Told(signInWithGoogleCatch(Thrown(TRUE, ProfileError(ext.profile))),
                   Fail(signInWithGoogleCatch(Thrown(TRUE, ProfileError(ext.profile)))))
    ELSE IF ext.backend.kind = "throw"
         THEN Told(signInWithGoogleCatch(ext.backend.err),
                   Fail(signInWithGoogleCatch(ext.backend.err)))
    ELSE Told("", Ok(ext.backend.account, NoMessage))

requestPasswordResetMonolithic(a, ext) ==
    IF validateEmail(a.email) # ""
    THEN Told(validateEmail(a.email), Fail(validateEmail(a.email)))
    ELSE IF ~ext.probe THEN Told(ServerNotRunning, Fail(ServerNotRunning))
    ELSE IF ext.backend.kind = "throw"
         THEN Told(requestPasswordResetCatch(ext.backend.err),
                   Fail(requestPasswordResetCatch(ext.backend.err)))
    ELSE Told("", Ok(NoUser, ResetMessage(a.email)))

Monolithic(t, a, ext) ==
    CASE t = "login" -> loginMonolithic(a, ext)
      [] t = "signUp" -> signUpMonolithic(a, ext)
      [] t = "google" -> googleSignInMonolithic(a, ext)
      [] t = "reset" -> requestPasswordResetMonolithic(a, ext)

\* ------------------------------------------------- the screens: handlers
\* that call the context's functions as the README example and RegisterScreen
\* do.  A handler holds the functions of the render it was created in: their
\* closures read the state of that render, whatever the handler has dispatched
\* since.
usernameValidator(username) ==
    IF Len(username) = 0 THEN "Please enter a username"
    ELSE IF Len(username) < 3 THEN "Username must be at least 3 characters"
    ELSE ""

passwordConfirmValidator(password) ==
    IF Len(password) = 0 THEN "Please confirm password" ELSE ""

\* README, Email/Password Login: setAuthEmail(e); setAuthPassword(p);
\* await login().  login() is the closure of the render the handler belongs
\* to, so it binds that render's authEmail and authPassword.
handleLogin(email, password) ==
    /\ Event
    /\ pc["login"] = "idle"
    /\ InFlight < MaxInFlight
    /\ args' = [args EXCEPT !["login"] = CallArgs("login", <<>>, NoResponse, <<>>)]
    /\ state' = authReducer(authReducer(authReducer(state,
                    Act("SET_AUTH_EMAIL", email)),
                    Act("SET_AUTH_PASSWORD", password)),
                    Act("SET_LOADING", TRUE))
    /\ pc' = [pc EXCEPT !["login"] = "clearError"]
    /\ running' = "login"
    /\ session' = StartSession("login")
    /\ UNCHANGED <<alertQueueManager, persistedAuthToken, persistedUserData, deps, parseCurrent,
                   result, calls, boot>>

\* RegisterScreen.handleRegister up to its await: the screen validates the
\* form and its own fields and, if all pass, calls signUp(username).
hasErrors(username, authPasswordConfirm) ==
    \/ validateEmail(state.authEmail) # ""
    \/ validatePassword(state.authPassword) # ""
    \/ usernameValidator(username) # ""
    \/ passwordConfirmValidator(authPasswordConfirm) # ""
    \/ state.authPassword # authPasswordConfirm

handleRegister(username, authPasswordConfirm) ==
    /\ Event
    /\ pc["signUp"] = "idle"
    /\ IF hasErrors(username, authPasswordConfirm)
       THEN UNCHANGED vars
       ELSE signUp(username)

\* handleRegister after its await: on success it calls resetAuthState().
handleRegisterResume ==
    /\ Microtask
    /\ pc["signUp"] = "returned"
    /\ state' = IF result["signUp"].success
                 THEN authReducer(state, Act("RESET_AUTH_STATE", <<>>))
                 ELSE state
    /\ pc' = [pc EXCEPT !["signUp"] = "idle"]
    /\ args' = [args EXCEPT !["signUp"] = NoArgs]
    /\ result' = [result EXCEPT !["signUp"] = NoResult]
    /\ calls' = [calls EXCEPT !["signUp"] = <<>>]
    /\ UNCHANGED <<alertQueueManager, persistedAuthToken, persistedUserData, deps, parseCurrent,
                   running, boot, session>>

ScreenTasks == {"login", "signUp"}
ConfirmInputs == {<<>>, GoodPassword}

NextScreens ==
    \/ \E e \in EmailInputs : setAuthEmail(e)
    \/ \E p \in PasswordInputs : setAuthPassword(p)
    \/ \E p \in PasswordInputs : handleLogin(OtherEmail, p)
    \/ \E u \in UsernameInputs, c \in ConfirmInputs : handleRegister(u, c)
    \/ \E t \in ScreenTasks : StepClearError(t)
    \/ \E t \in ScreenTasks : StepService(t)
    \/ \E t \in ScreenTasks : \E ext \in Answers(t) : ServiceReturn(t, ext)
    \/ \E t \in ScreenTasks : Resume(t)
    \/ \E t \in ScreenTasks \cup {"check"} : StepAdopt(t)
    \/ \E t \in ScreenTasks \cup {"check"} : StepPersistToken(t)
    \/ \E t \in ScreenTasks \cup {"check"} : StepPersistData(t)
    \/ \E t \in ScreenTasks : StepClearForm(t)
    \/ \E t \in ScreenTasks : StepSetError(t)
    \/ \E t \in ScreenTasks : StepFinally(t)
    \/ \E t \in {"login", "check"} : Ack(t)
    \/ handleRegisterResume
    \/ \E o \in CurrentOutcomes : getCurrentUserReturn(o)
    \/ ResumeCheck
    \/ BootEffect
    \/ \E i \in BootSlots, o \in CurrentOutcomes : BootCurrentReturn(i, o)
    \/ \E i \in BootSlots, a \in Users : BootRestored(i, a)
    \/ \E i \in BootSlots : BootRestoreFailed(i)

SpecScreens == Init /\ [][NextScreens]_vars

\* ---------------------------------------------------------------- claims
PersistedEmpty == persistedAuthToken = Undefined /\ persistedUserData = NoData
PersistedPresent == persistedAuthToken # Undefined /\ persistedUserData # NoData

\* C1: in every state between handlers, if currentUser is set then authToken
\* is currentUser's session token and username is currentUser's username.
TokenDerivedFromCurrentUser ==
    (running = "none" /\ state.currentUser # NoUser) =>
        /\ state.authToken = getSessionToken(state.currentUser)
        /\ state.username = getUsername(state.currentUser)

\* no coordinator action or boot restore is under way or about to run
Quiescent ==
    /\ running = "none"
    /\ \A t \in Tasks : pc[t] = "idle"
    /\ boot = <<>>
    /\ deps = <<persistedAuthToken, persistedUserData>>

\* C2: once the boot restore is done and no action is mid-step, the state is
\* not authenticated over cleared persistence, and persistence does not hold
\* a token and snapshot under an unauthenticated state.
StateAgreesWithPersistence ==
    Quiescent =>
        /\ ~(isAuthenticated(state) /\ PersistedEmpty)
        /\ ~(PersistedPresent /\ ~isAuthenticated(state))

\* C3: after logout() returned and the app restarted, with no sign-in since,
\* the state is unauthenticated and persistence is empty, whatever
\* Parse.User.logOut() did.
NoRehydrationAfterLogout ==
    session = "restarted" => ~isAuthenticated(state) /\ PersistedEmpty

\* C4: logout() erases the token, then the snapshot, then resets the state,
\* then calls the backend: persistence is empty whenever the reset is about to
\* be or has been dispatched, and currentUser, authToken and username are
\* unset and both keys empty when logoutUser() is called.
LogoutOrder ==
    /\ pc["logout"] = "eraseData" => persistedAuthToken = Undefined
    /\ pc["logout"] \in {"resetState", "callLogout"} => PersistedEmpty
    /\ pc["logout"] = "callLogout" =>
          /\ state.currentUser = NoUser
          /\ state.authToken = Undefined
          /\ state.username = Undefined
    /\ pc["logout"] \in {"eraseData", "resetState", "callLogout"} =>
          calls["logout"] = <<>>

LogoutOrderWitness ==
    /\ pc["logout"] = "callLogout"
    /\ parseCurrent # NoUser
    /\ deps[1] # Undefined

\* C5: logout() enters the backend call with the local session cleared and the
\* error empty; whatever Parse.User.logOut() does, the result is
\* {success: true} with no error, no probe is made, and the steps after the
\* call change neither the state nor persistence.
LogoutAlwaysSucceeds ==
    [][/\ (pc["logout"] = "callLogout" /\ pc'["logout"] = "backend") =>
            /\ ~isAuthenticated(state') /\ state'.username = Undefined
            /\ state'.error = ""
            /\ persistedAuthToken' = Undefined /\ persistedUserData' = NoData
       /\ (pc["logout"] # pc'["logout"] /\ pc'["logout"] \in {"resolved", "returned"}) =>
            /\ result'["logout"].success
            /\ result'["logout"].error = ""
            /\ \A k \in 1..Len(calls'["logout"]) : calls'["logout"][k].op # "probe"
            /\ state' = state
            /\ persistedAuthToken' = persistedAuthToken
            /\ persistedUserData' = persistedUserData]_vars

LogoutAlwaysSucceedsWitness ==
    /\ pc["logout"] = "returned"
    /\ calls["logout"] = <<Call("backend", FALSE)>>
    /\ result["logout"].success
    /\ state = initialAuthState
    /\ PersistedEmpty
    /\ deps[1] # Undefined

SessionFields ==
    <<state.currentUser, state.authToken, state.username, persistedAuthToken,
      persistedUserData>>

\* C6: no step of a login, signUp, googleSignIn or requestPasswordReset
\* invocation that has not succeeded changes currentUser, authToken, username,
\* the persisted token or the persisted snapshot.
FailureLeavesSession ==
    [][\A t \in Transitions :
          (pc[t] # pc'[t] /\ ~result'[t].success) => SessionFields' = SessionFields]_vars

FailureLeavesSessionWitness ==
    /\ pc["login"] = "returned"
    /\ ~result["login"].success
    /\ calls["login"] = <<Call("probe", TRUE), Call("backend", FALSE)>>
    /\ state.currentUser # NoUser
    /\ persistedAuthToken = getSessionToken(state.currentUser)

ValidationMessages(t, a) ==
    ({validateEmail(a.email)}
     \cup (IF t \in {"login", "signUp"} THEN {validatePassword(a.password)} ELSE {})
     \cup (IF t = "signUp" THEN {validateUsername(a.username)} ELSE {})) \ {""}

PastService(t) == pc[t] \notin {"idle", "clearError", "clearMessage", "service"}

\* C7: when an input of login, signUp or requestPasswordReset fails its
\* validation predicate, the service has returned {success: false} with a
\* validation message of a failing input, without awaiting the probe and
\* without any outside call; a valid email with an empty password gives
\* "Password can't be blank".
ValidationShortCircuits ==
    \A t \in {"login", "signUp", "reset"} :
        (PastService(t) /\ ValidationMessages(t, args[t]) # {}) =>
            /\ pc[t] # "await"
            /\ ~result[t].success
            /\ result[t].error \in ValidationMessages(t, args[t])
            /\ calls[t] = <<>>
            /\ (t = "login" /\ args[t].email = GoodEmail /\ args[t].password = <<>>) =>
                    result[t].error = "Password can't be blank"

ValidationShortCircuitsWitness ==
    /\ pc["login"] = "returned"
    /\ args["login"].email = GoodEmail
    /\ args["login"].password = <<>>
    /\ result["login"] = Fail("Password can't be blank")

ProbeSaidDown(c) == \E k \in 1..Len(c) : c[k] = Call("probe", FALSE)

\* C8: when the probe of a login, signUp, googleSignIn or
\* requestPasswordReset invocation answered false, the result is
\* {success: false} with the server-not-running message, the invocation made
\* no backend call, and none of its steps changes currentUser.
ProbeGate ==
    [][\A t \in Transitions :
          (pc[t] # pc'[t] /\ ProbeSaidDown(calls'[t])) =>
              /\ result'[t] = Fail(ServerNotRunning)
              /\ \A k \in 1..Len(calls'[t]) : calls'[t][k].op \notin {"backend", "fetch"}
              /\ state'.currentUser = state.currentUser]_vars

ProbeGateWitness ==
    /\ pc["signUp"] = "returned"
    /\ calls["signUp"] = ProbeDown
    /\ state.currentUser = NoUser
    /\ state.error = ServerNotRunning

\* C9: isLoading is true in every state in which a login, signUp,
\* googleSignIn or requestPasswordReset invocation has started and not returned.
LoadingWhileOutstanding ==
    \A t \in Transitions : pc[t] \notin {"idle", "returned"} => state.isLoading

\* C10: the step by which an invocation returns is the dispatch of
\* SET_LOADING(false), so isLoading is false at the return; the caller's
\* continuation dispatches nothing; and every invocation whose service call
\* has settled does return.
LoadingResetLast ==
    /\ [][\A t \in Transitions :
            /\ (pc[t] # "returned" /\ pc'[t] = "returned") =>
                  /\ pc[t] = "finally"
                  /\ state' = authReducer(state, Act("SET_LOADING", FALSE))
                  /\ ~state'.isLoading
            /\ (pc[t] = "returned" /\ pc'[t] # "returned") => state' = state]_vars
    /\ \A t \in Transitions : (pc[t] = "resolved") ~> (pc[t] = "returned")

LoadingResetLastWitness ==
    /\ pc["signUp"] = "returned"
    /\ calls["signUp"] = <<Call("probe", TRUE), Call("backend", FALSE)>>
    /\ pc["reset"] = "await"
    /\ ~state.isLoading

Adopted(s, u) ==
    /\ s.currentUser = u
    /\ s.authToken = getSessionToken(u)
    /\ s.username = getUsername(u)

\* C11: a login, signUp or googleSignIn that got user u dispatches
\* SET_CURRENT_USER(u), then writes u's token, then, as the very next step of
\* the whole provider, the snapshot derived from u; when it returns the state
\* holds u with u's token and username and persistence holds u's token and
\* snapshot.
PersistOnSuccess ==
    [][\A t \in {"login", "signUp", "google"} :
          /\ pc[t] = "adopt" =>
                /\ pc'[t] = "persistToken"
                /\ Adopted(state', result[t].user)
          /\ pc[t] = "persistToken" =>
                /\ pc'[t] = "persistData"
                /\ persistedAuthToken' = getSessionToken(result[t].user)
                /\ persistedUserData' = persistedUserData
                /\ state' = state
          /\ pc[t] = "persistData" =>
                /\ pc'[t] = "clearForm"
                /\ persistedAuthToken' = persistedAuthToken
                /\ persistedUserData' =
                      [objectId |-> result[t].user.id,
                       sessionToken |-> result[t].user.sessionToken,
                       username |-> result[t].user.username,
                       email |-> result[t].user.email]
                /\ state' = state
          /\ (pc[t] # "returned" /\ pc'[t] = "returned" /\ result'[t].success) =>
                /\ result'[t].user # NoUser
                /\ Adopted(state', result'[t].user)
                /\ persistedAuthToken' = getSessionToken(result'[t].user)
                /\ persistedUserData'.sessionToken = persistedAuthToken'
                /\ persistedUserData'.objectId = result'[t].user.id]_vars

PersistOnSuccessWitness ==
    /\ pc["google"] = "returned"
    /\ result["google"].success
    /\ Adopted(state, result["google"].user)
    /\ persistedUserData = Snapshot(result["google"].user)
    /\ pc["login"] = "await"

\* C12: signUp sets isLoading at its call; when a successful signUp returns,
\* isLoading is false, currentUser is the new user, authEmail, authPassword
\* and error are empty and resetPasswordMessage is unset.
SignUpSuccess ==
    /\ pc["signUp"] \in {"clearError", "service"} => state.isLoading
    /\ (pc["signUp"] = "returned" /\ result["signUp"].success) =>
          /\ ~state.isLoading
          /\ state.currentUser = result["signUp"].user
          /\ state.currentUser # NoUser
          /\ state.authEmail = <<>>
          /\ state.authPassword = <<>>
          /\ state.error = ""
          /\ state.resetPasswordMessage = NoMessage

SignUpSuccessWitness ==
    /\ pc["signUp"] = "returned"
    /\ result["signUp"].success
    /\ getUsername(state.currentUser) = getUsername(User(1))
    /\ args["signUp"].email = GoodEmail
    /\ persistedAuthToken = getSessionToken(User(1))

\* C13: googleSignIn with a response whose type is not "success" (or with no
\* response) returns the failure "Google authentication was cancelled or
\* failed" at once: it never awaits, makes no outside call, and no step of it
\* changes currentUser.
GoogleNotSuccess ==
    [][(pc["google"] # pc'["google"] /\ pc'["google"] # "idle"
        /\ args'["google"].response.type # "success") =>
          /\ state'.currentUser = state.currentUser
          /\ pc'["google"] # "await"
          /\ calls'["google"] = <<>>
          /\ pc'["google"] \notin {"clearError", "service"} =>
                result'["google"] =
                    [success |-> FALSE,
                     error |-> "Google authentication was cancelled or failed",
                     user |-> NoUser, message |-> NoMessage]]_vars

GoogleNotSuccessWitness ==
    /\ pc["google"] = "returned"
    /\ args["google"].response.type = "locked"
    /\ state.error = "Google authentication was cancelled or failed"
    /\ state.currentUser = User(2)

\* C14: an invocation of googleSignIn calls Parse.User.logInWith only with a
\* "success" response carrying both tokens, after the probe said the server
\* is up and the profile fetch answered ok with sub, email and name, in that
\* order; when the fetch fails or a field is missing, logInWith is not called,
\* the invocation fails with an error, and none of its steps changes
\* currentUser, authToken, username, the SDK's current user or persistence.
GoogleGate ==
    [][pc["google"] # pc'["google"] =>
          LET c == calls'["google"]
              r == args'["google"].response
          IN  /\ (\E k \in 1..Len(c) : c[k].op = "backend") =>
                    /\ r.type = "success" /\ r.idToken /\ r.accessToken
                    /\ Len(c) = 3
                    /\ c[1] = [op |-> "probe", ok |-> TRUE, got |-> {}]
                    /\ c[2] = [op |-> "fetch", ok |-> TRUE,
                               got |-> {"sub", "email", "name"}]
                    /\ c[3].op = "backend"
              /\ (\E k \in 1..Len(c) :
                      /\ c[k].op = "fetch"
                      /\ (~c[k].ok \/ c[k].got # {"sub", "email", "name"})) =>
                    /\ \A k \in 1..Len(c) : c[k].op # "backend"
                    /\ ~result'["google"].success
                    /\ result'["google"].error # ""
                    /\ result'["google"].user = NoUser
                    /\ SessionFields' = SessionFields
                    /\ parseCurrent' = parseCurrent]_vars

GoogleGateWitness ==
    /\ pc["google"] = "returned"
    /\ result["google"].success
    /\ Len(calls["google"]) = 3
    /\ calls["google"][2].got = {"sub", "email", "name"}
    /\ calls["google"][3] = Call("backend", TRUE)
    /\ state.currentUser = result["google"].user
    /\ getUsername(state.currentUser) = getUsername(User(1))

\* the mount's boot activity has finished
Settled ==
    /\ boot = <<>>
    /\ \A t \in Tasks : pc[t] = "idle"
    /\ deps = <<persistedAuthToken, persistedUserData>>

\* C15: when Parse.User.currentAsync() answers from the cache, a boot run
\* whose step 1 finds a cached user with the session token the run was started
\* for never goes on to restoreUserSession: the run ends at that step by
\* adopting the cached user (SET_CURRENT_USER), leaving persistence as it is.
BootFastPath ==
    [][/\ \A i \in 1..Len(boot) :
            (/\ boot[i].pc = "current"
             /\ parseCurrent # NoUser
             /\ getSessionToken(parseCurrent) = boot[i].token
             /\ Len(boot') >= Len(boot)) => boot'[i] = boot[i]
       /\ (/\ Len(boot') < Len(boot)
           /\ \A i \in 1..Len(boot) : boot[i].pc = "current") =>
            /\ \E i \in 1..Len(boot) :
                  /\ boot' = Remove(boot, i)
                  /\ parseCurrent # NoUser
                  /\ getSessionToken(parseCurrent) = boot[i].token
                  /\ state'.authToken = boot[i].token
            /\ state'.currentUser = parseCurrent
            /\ parseCurrent' = parseCurrent
            /\ persistedAuthToken' = persistedAuthToken
            /\ persistedUserData' = persistedUserData]_vars

BootFastPathWitness ==
    /\ boot = <<>>
    /\ pc["check"] = "current"
    /\ state.currentUser = Expired
    /\ parseCurrent = Expired
    /\ persistedAuthToken = getSessionToken(Expired)
    /\ persistedUserData = Snapshot(Expired)

\* C16: a mount that finds a persisted token with its snapshot, no cached
\* current user with that token, and a token the backend rejects (so
\* restoreUserSession fails) has, once its boot activity has finished, neither
\* persisted key set and an unauthenticated state (currentUser and authToken
\* unset).
BootFailureClears ==
    (/\ persistedAuthToken = getSessionToken(Expired)
     /\ persistedUserData = Snapshot(Expired)
     /\ (parseCurrent = NoUser \/ getSessionToken(parseCurrent) # persistedAuthToken))
    => [](Settled =>
            /\ PersistedEmpty
            /\ state.currentUser = NoUser
            /\ state.authToken = Undefined)

\* C17: once the boot activity of a mount has finished, the persisted token is
\* not the token of a session the backend has revoked.
NoStaleToken ==
    Settled =>
        persistedAuthToken # getSessionToken(Expired)

\* a boot run is awaiting restoreUserSession(token)
AtBecome(token) ==
    \E i \in 1..Len(boot) : boot[i].pc = "become" /\ boot[i].token = token

\* C18: whatever is persisted and however the backend answers, once a
\* restoreUserSession(token) of a mount has ended, no boot run of that mount
\* awaits restoreUserSession for the same token again.
RestoreAtMostOnce ==
    \A token \in BootTokens :
        [](AtBecome(token) => [](~AtBecome(token) => []~AtBecome(token)))

\* C19: a mount that starts with a persisted token and no persisted snapshot
\* ends its boot activity with neither key set.
PartialPersistHeals ==
    (persistedAuthToken # Undefined /\ persistedUserData = NoData)
    => [](Settled => PersistedEmpty)

\* C20: when nothing outside fails, whatever the persisted token (with its
\* snapshot) and the cached current user of a mount, every interleaving of the boot effect and the on-mount checkCurrentUser ends
\* with the currentUser, authToken, username, persisted token and persisted
\* snapshot that the boot effect followed by checkCurrentUser ends with.
ResyncIdempotent ==
    \A token \in BootTokens, data \in BootSnapshots, cache \in BootCaches :
        (/\ persistedAuthToken = token /\ persistedUserData = data
         /\ data.sessionToken = token /\ parseCurrent = cache)
        => [](Settled => SessionFields = BootThenCheck(token, data, cache))

\* C21: the published isAuthenticated is true exactly when currentUser is set
\* or authToken is a non-empty token, and the reducer state holds no
\* isAuthenticated field of its own.
AuthenticatedIsDerived ==
    /\ isAuthenticated(state) <=> (state.currentUser # NoUser \/ Len(state.authToken) > 0)
    /\ DOMAIN state = {"authToken", "authEmail", "authPassword", "isLoading", "error",
                       "currentUser", "username", "resetPasswordMessage"}

AuthenticatedIsDerivedWitness ==
    /\ state.currentUser # NoUser
    /\ state.authToken = Undefined
    /\ isAuthenticated(state)
    /\ pc["logout"] = "idle"

\* C22: from any state, CLEAR_FORM dispatched twice gives the state CLEAR_FORM
\* dispatched once gives; CLEAR_FORM empties authEmail, authPassword and error,
\* sets isLoading to false, unsets resetPasswordMessage and leaves currentUser,
\* authToken and username as they were.
ClearFormIdempotent ==
    LET once == authReducer(state, [type |-> "CLEAR_FORM", payload |-> <<>>])
        twice == authReducer(once, [type |-> "CLEAR_FORM", payload |-> <<>>])
    IN  /\ twice = once
        /\ once.currentUser = state.currentUser
        /\ once.authToken = state.authToken
        /\ once.username = state.username
        /\ once.authEmail = <<>>
        /\ once.authPassword = <<>>
        /\ once.error = ""
        /\ once.isLoading = FALSE
        /\ once.resetPasswordMessage = NoMessage

ClearFormIdempotentWitness ==
    /\ state.currentUser = User(1)
    /\ state.authToken = getSessionToken(User(2))
    /\ state.username = getUsername(User(1))
    /\ state.authEmail = <<>>
    /\ state.authPassword = <<>>
    /\ state.error = ""
    /\ ~state.isLoading
    /\ state.resetPasswordMessage = NoMessage
    /\ authReducer(state, Act("CLEAR_FORM", <<>>)) = state

\* C30: the reducer returns an AuthState for every state and action; each
\* action changes only the fields the action table lists for it:
\* SET_CURRENT_USER(u) sets currentUser, authToken and username from u and
\* unsets all three when u is absent; RESET_AUTH_STATE gives the initial
\* value of every field; SET_AUTH_EMAIL, SET_AUTH_PASSWORD, SET_ERROR,
\* SET_AUTH_TOKEN, SET_LOADING, SET_RESET_PASSWORD_MESSAGE and
\* CLEAR_RESET_MESSAGE change their own field only; CLEAR_FORM changes the
\* form fields only; an unrecognised action changes nothing.
OnlyChanges(next, fields) ==
    /\ DOMAIN next = DOMAIN state
    /\ \A f \in DOMAIN state \ fields : next[f] = state[f]

ReducerTable ==
    /\ \A u \in ReducerUsers :
        LET next == authReducer(state, [type |-> "SET_CURRENT_USER", payload |-> u])
        IN  /\ OnlyChanges(next, {"currentUser", "authToken", "username"})
            /\ next.currentUser = u
            /\ next.authToken = IF u = NoUser THEN Undefined ELSE u.sessionToken
            /\ next.username = IF u = NoUser THEN Undefined ELSE u.username
    /\ authReducer(state, [type |-> "RESET_AUTH_STATE", payload |-> <<>>]) =
            [authToken |-> Undefined, authEmail |-> <<>>, authPassword |-> <<>>,
             isLoading |-> FALSE, error |-> "", currentUser |-> NoUser,
             username |-> Undefined, resetPasswordMessage |-> NoMessage]
    /\ \A e \in EmailInputs \cup WideEmails :
        LET next == authReducer(state, [type |-> "SET_AUTH_EMAIL", payload |-> e])
        IN  /\ OnlyChanges(next, {"authEmail"})
            /\ next.authEmail = SelectSeq(e, LAMBDA c : c # " ")
    /\ \A p \in WidePasswords :
        LET next == authReducer(state, [type |-> "SET_AUTH_PASSWORD", payload |-> p])
        IN  OnlyChanges(next, {"authPassword"}) /\ next.authPassword = p
    /\ \A m \in {"", "custom"} :
        LET next == authReducer(state, [type |-> "SET_ERROR", payload |-> m])
        IN  OnlyChanges(next, {"error"}) /\ next.error = m
    /\ \A u \in ReducerUsers :
        LET next == authReducer(state, [type |-> "SET_AUTH_TOKEN",
                                        payload |-> getSessionToken(u)])
        IN  OnlyChanges(next, {"authToken"}) /\ next.authToken = getSessionToken(u)
    /\ \A l \in BOOLEAN :
        LET next == authReducer(state, [type |-> "SET_LOADING", payload |-> l])
        IN  OnlyChanges(next, {"isLoading"}) /\ next.isLoading = l
    /\ LET next == authReducer(state, [type |-> "SET_RESET_PASSWORD_MESSAGE",
                                       payload |-> ResetMessage(GoodEmail)])
       IN  /\ OnlyChanges(next, {"resetPasswordMessage"})
           /\ next.resetPasswordMessage = ResetMessage(GoodEmail)
    /\ LET next == authReducer(state, [type |-> "CLEAR_RESET_MESSAGE", payload |-> <<>>])
       IN  /\ OnlyChanges(next, {"resetPasswordMessage"})
           /\ next.resetPasswordMessage = NoMessage
    /\ OnlyChanges(authReducer(state, [type |-> "CLEAR_FORM", payload |-> <<>>]),
                   {"authEmail", "authPassword", "error", "isLoading",
                    "resetPasswordMessage"})
    /\ authReducer(state, [type |-> "NOT_AN_ACTION", payload |-> <<>>]) = state

ReducerTableWitness ==
    /\ state.currentUser = User(2)
    /\ state.authToken = getSessionToken(User(2))
    /\ state.username = getUsername(User(2))
    /\ state.authEmail = <<"a", "@", "b">>
    /\ state.error = ""
    /\ state.isLoading
    /\ authReducer(state, Act("SET_CURRENT_USER", NoUser)).username = Undefined

BootIsSilent ==
    [][boot' # boot =>
        /\ state'.error = state.error
        /\ state'.isLoading = state.isLoading
        /\ state'.authEmail = state.authEmail
        /\ state'.authPassword = state.authPassword
        /\ state'.resetPasswordMessage = state.resetPasswordMessage
        /\ pc' = pc /\ result' = result /\ running' = running
        /\ \/ /\ persistedAuthToken' = persistedAuthToken
              /\ persistedUserData' = persistedUserData
           \/ /\ persistedAuthToken' = Undefined
              /\ persistedUserData' = NoData
              /\ state' = state
              /\ parseCurrent' = parseCurrent]_vars

BootIsSilentWitness ==
    /\ boot = <<>>
    /\ PersistedEmpty
    /\ deps # <<Undefined, NoData>>
    /\ state.currentUser = User(1)
    /\ state.error = "custom"
    /\ state.isLoading
    /\ pc["login"] = "idle"
    /\ pc["reset"] = "await"

\* C25: when login() starts, the e-mail and the password it has bound, and
\* that it validates and submits, are the ones the form holds, also when the
\* same handler has just called setAuthEmail and setAuthPassword.
LoginSubmitsLatestForm ==
    pc["login"] \in {"clearError", "service"} =>
        /\ args["login"].email = state.authEmail
        /\ args["login"].password = state.authPassword

\* C26: when handleRegister finishes after signUp returned success, the
\* state is authenticated as the user signUp returned.
RegisteredIsLoggedIn ==
    [][(pc["signUp"] = "returned" /\ result["signUp"].success
            /\ pc'["signUp"] = "idle") =>
        /\ isAuthenticated(state')
        /\ state'.currentUser = result["signUp"].user]_vars

\* C27: the password of the form is never persisted: the persisted token is
\* unset or a session token (of an account, or the one given to
\* setAuthToken), and the persisted snapshot has exactly the fields objectId,
\* sessionToken, username and email, none of which holds the password.
PasswordNotPersisted ==
    /\ persistedAuthToken \in {Undefined} \cup TokenInputs
                              \cup {getSessionToken(u) : u \in Users}
    /\ persistedAuthToken \notin PasswordInputs
    /\ DOMAIN persistedUserData = {"objectId", "sessionToken", "username", "email"}
    /\ \A f \in {"sessionToken", "username", "email"} :
            persistedUserData[f] \notin PasswordInputs
    /\ persistedUserData \in {NoData} \cup {Snapshot(u) : u \in Users}

PasswordNotPersistedWitness ==
    /\ pc["login"] = "clearForm"
    /\ args["login"].password = GoodPassword
    /\ state.authPassword = GoodPassword
    /\ persistedAuthToken = getSessionToken(result["login"].user)
    /\ persistedUserData = Snapshot(result["login"].user)

\* C28: an invocation of login, signUp, googleSignIn or
\* requestPasswordResetAction first sets isLoading (leaving error as it was),
\* then empties error, and only then calls its service, which starts with
\* isLoading true and error empty.  Its steps adopt a user, write persistence
\* or clear the form only when the service returned success: persistence is
\* written when the state already holds the user, and the form is cleared when
\* persistence already holds the user's token and snapshot.
InvocationOrder ==
    [][\A t \in Transitions :
        /\ (pc[t] = "idle" /\ pc'[t] # "idle") =>
              /\ state'.isLoading
              /\ state'.error = state.error
              /\ pc'[t] = "clearError"
        /\ (running = t /\ pc[t] = "clearError") =>
              /\ state'.error = ""
              /\ state'.isLoading
              /\ pc'[t] # "await"
        /\ (running = t /\ pc[t] = "service") =>
              /\ state.isLoading
              /\ state.error = ""
              /\ state' = state
        /\ (running = t /\ (\/ state'.currentUser # state.currentUser
                            \/ persistedAuthToken' # persistedAuthToken
                            \/ persistedUserData' # persistedUserData
                            \/ pc[t] = "clearForm")) =>
              /\ result[t].success
              /\ pc[t] \in {"adopt", "persistToken", "persistData", "clearForm"}
        /\ (running = t /\ (\/ persistedAuthToken' # persistedAuthToken
                            \/ persistedUserData' # persistedUserData)) =>
              Adopted(state, result[t].user)
        /\ (running = t /\ pc[t] = "clearForm") =>
              /\ persistedAuthToken = getSessionToken(result[t].user)
              /\ persistedUserData = Snapshot(result[t].user)
              /\ state' = authReducer(state, Act("CLEAR_FORM", <<>>))]_vars

InvocationOrderWitness ==
    /\ pc["signUp"] = "finally"
    /\ running = "signUp"
    /\ result["signUp"].success
    /\ Adopted(state, result["signUp"].user)
    /\ persistedUserData = Snapshot(result["signUp"].user)
    /\ state.authEmail = <<>>
    /\ pc["reset"] = "await"

\* C29: the restore sequence runs once per mount, with the persisted values
\* of the mount: within a mount no later step starts another run of it,
\* whatever login, signUp, googleSignIn or the boot itself write to
\* persistence.
RestoreRunsOncePerMount ==
    [][Len(boot') <= Len(boot)]_vars

\* C31: when the backend call of signUp throws an Error, the returned error
\* is chosen from the Error's message in this order: "username" and "taken"
\* give the username-taken message; else "email" and "taken" the
\* email-registered message; else "Account already exists" the account-exists
\* message; else a network signal the cannot-connect message; else the message
\* itself.  The three duplicate messages differ from each other.
UsernameTaken == "Username is already taken. Please choose another one."
EmailRegistered ==
    "Email is already registered. Please use another email or try logging in."
AccountExists == "An account with this email already exists. Please try logging in."

SignUpPriority(signals, message) ==
    CASE {"username", "taken"} \subseteq signals -> UsernameTaken
      [] {"email", "taken"} \subseteq signals -> EmailRegistered
      [] "Account already exists" \in signals -> AccountExists
      [] signals \cap {"XMLHttpRequest", "Network Error", "Failed to fetch",
                       "ECONNREFUSED"} # {} -> CannotConnect
      [] OTHER -> message

SignUpClassification ==
    [][\A ext \in SignUpAnswers :
        (/\ ext.probe /\ ext.backend.kind = "throw" /\ ext.backend.err.isError
         /\ ServiceReturn("signUp", ext)) =>
            /\ ~result'["signUp"].success
            /\ result'["signUp"].error =
                  SignUpPriority(Needles(ext.backend.err.message),
                                 ext.backend.err.message)
            /\ Cardinality({UsernameTaken, EmailRegistered, AccountExists}) = 3]_vars

SignUpClassificationWitness ==
    /\ pc["signUp"] = "returned"
    /\ calls["signUp"] = ProbeUp \o Backend(Throws(Thrown(TRUE, "")))
    /\ result["signUp"].error = EmailRegistered
    /\ state.error = EmailRegistered
    /\ state.currentUser = User(2)

\* C32: at the step at which requestPasswordResetAction(email) returns,
\* resetPasswordMessage is set exactly if the result is a success, and then
\* it is the confirmation for that email; no step of the request changes
\* currentUser, authToken, username, the persisted token or the persisted
\* snapshot.
ResetMessageIffSuccess ==
    [][/\ (pc["reset"] # "returned" /\ pc'["reset"] = "returned") =>
            /\ (state'.resetPasswordMessage # NoMessage) <=> result'["reset"].success
            /\ result'["reset"].success =>
                  /\ state'.resetPasswordMessage = [set |-> TRUE,
                                                    email |-> args'["reset"].email]
                  /\ result'["reset"].message = state'.resetPasswordMessage
                  /\ result'["reset"].user = NoUser
       /\ pc'["reset"] # pc["reset"] =>
            /\ state'.currentUser = state.currentUser
            /\ state'.authToken = state.authToken
            /\ state'.username = state.username
            /\ persistedAuthToken' = persistedAuthToken
            /\ persistedUserData' = persistedUserData]_vars

ResetMessageIffSuccessWitness ==
    /\ pc["reset"] = "returned"
    /\ ~result["reset"].success
    /\ result["reset"].error = "No account found with this email address."
    /\ state.resetPasswordMessage = NoMessage
    /\ state.currentUser = User(1)
    /\ PersistedPresent

\* C33: googleSignIn with a "success" response that lacks the identity token
\* or the access token (or the authentication object, i.e. both) returns the
\* failure "Incomplete authentication data. Please try signing in again."
\* without awaiting: no probe, no profile fetch and no backend login is made.
GoogleIncomplete ==
    [][(/\ pc["google"] # pc'["google"] /\ pc'["google"] # "idle"
        /\ args'["google"].response.type = "success"
        /\ (~args'["google"].response.idToken
            \/ ~args'["google"].response.accessToken)) =>
          /\ pc'["google"] \notin {"await", "adopt", "persistToken", "persistData",
                                   "clearForm"}
          /\ calls'["google"] = <<>>
          /\ parseCurrent' = parseCurrent
          /\ pc'["google"] \notin {"clearError", "service"} =>
                result'["google"] =
                    [success |-> FALSE,
                     error |-> "Incomplete authentication data. Please try signing in again.",
                     user |-> NoUser, message |-> NoMessage]]_vars

GoogleIncompleteWitness ==
    /\ pc["google"] = "returned"
    /\ args["google"].response =
          [type |-> "success", idToken |-> TRUE, accessToken |-> FALSE]
    /\ state.error = "Incomplete authentication data. Please try signing in again."
    /\ calls["google"] = <<>>
    /\ state.currentUser = User(2)

\* C34: the monolithic AuthProvider behaves as the modular one: whenever an
\* invocation of login, signUp, googleSignIn or requestPasswordResetAction of
\* the modular provider returns, the monolithic action, given the same
\* arguments and the same answers of the outside world, has returned the same
\* success, error and message and has left the same state.error.
MonolithicAgrees ==
    [][\A t \in Transitions :
        (pc[t] = "finally" /\ pc'[t] = "returned") =>
            \A ext \in WideAnswers(t) :
                (/\ Plausible(t, args[t], ext)
                 /\ Service(t, args[t], ext) = Outcome(result[t], calls[t])) =>
                    /\ Monolithic(t, args[t], ext).result.success = result'[t].success
                    /\ Monolithic(t, args[t], ext).result.error = result'[t].error
                    /\ Monolithic(t, args[t], ext).result.message = result'[t].message
                    /\ Monolithic(t, args[t], ext).dispatched = state'.error]_vars

\* C35: a login, signUp or googleSignIn that was in flight when logout() was
\* called does not undo the logout: as long as no sign-in has been started
\* since logout() was called, no step of such a transition leaves the state
\* authenticated or persistence written (the steps from SET_CURRENT_USER to
\* the return are one synchronous segment, so what they leave is what holds
\* once the transition and the logout have completed).
LogoutNotUndone ==
    [][\A t \in Transitions :
        (session = "loggedOut" /\ running = t) =>
            /\ ~isAuthenticated(state')
            /\ persistedAuthToken' = Undefined
            /\ persistedUserData' = NoData]_vars

\* C36: whenever no action is in the middle of a synchronous segment, the
\* persisted token and the persisted snapshot are both absent, or both
\* present with the snapshot's sessionToken equal to the persisted token.
PersistedIsOneUnit ==
    running = "none" =>
        \/ persistedAuthToken = Undefined /\ persistedUserData = NoData
        \/ /\ persistedAuthToken # Undefined
           /\ persistedUserData # NoData
           /\ persistedUserData.sessionToken = persistedAuthToken

\* ------------------------------------------------------ AlertQueueManager
\* RegisterScreen.tsx keeps a static queue of alerts in front of Alert.alert.
\* An AlertItem is a title, a message and optional buttons; a button has a
\* text and an optional onPress.  The callbacks of the model either do not
\* exist or call showQueuedAlert with a title and a message.  An optional
\* value is a sequence: <<>> when it is absent, <<v>> when it is v.
NoCallback == [set |-> FALSE, title |-> "", message |-> ""]
Callback(title, message) == [set |-> TRUE, title |-> title, message |-> message]
Button(text, onPress) == [text |-> text, onPress |-> onPress]
AlertItem(title, message, buttons) ==
    [title |-> title, message |-> message, buttons |-> buttons]

AlertTitles == {"Registration Failed", "Success"}
AlertMessages == {"Username is already taken", "Network Error"}
AlertItems ==
    UNION {{AlertItem(title, message, buttons) :
                buttons \in
                    {<<>>,
                     <<<<Button("OK", NoCallback)>>>>,
                     <<<<Button("Cancel", NoCallback),
                         Button("Retry", Callback(title, message))>>>>,
                     <<<<Button("Next",
                                Callback("Success", "Network Error"))>>>>}} :
             title \in AlertTitles, message \in AlertMessages}

\* q.title === alert.title && q.message === alert.message
SameAlert(q, alert) == q.title = alert.title /\ q.message = alert.message

\* a variant that looks at the queue only
isDuplicateQueueOnly(m, alert) ==
    \E i \in 1..Len(m.queue) : SameAlert(m.queue[i], alert)

isDuplicate(m, alert) ==
    \/ /\ m.isShowing
       /\ m.currentAlert # <<>>
       /\ SameAlert(m.currentAlert[1], alert)
    \/ \E i \in 1..Len(m.queue) : SameAlert(m.queue[i], alert)

\* const { title, message, buttons = [{ text: "OK" }] } = nextAlert
Presented(nextAlert) ==
    [title |-> nextAlert.title, message |-> nextAlert.message,
     buttons |-> IF nextAlert.buttons # <<>> THEN nextAlert.buttons[1]
                 ELSE <<Button("OK", NoCallback)>>]

\* a variant that presents the head of the queue whatever isShowing says
showNextAlways(m) ==
    IF Len(m.queue) = 0 THEN m
    ELSE [queue |-> Tail(m.queue), isShowing |-> TRUE,
          currentAlert |-> <<Head(m.queue)>>,
          shown |-> Append(m.shown, Presented(Head(m.queue)))]

showNext(m) ==
    IF m.isShowing \/ Len(m.queue) = 0 THEN m
    ELSE [queue |-> Tail(m.queue), isShowing |-> TRUE,
          currentAlert |-> <<Head(m.queue)>>,
          shown |-> Append(m.shown, Presented(Head(m.queue)))]

enqueue(m, alert) ==
    IF isDuplicate(m, alert) THEN m
    ELSE showNext([m EXCEPT !.queue = Append(@, alert)])

\* the onPress that showNext wraps around button b of dialog i; the dialog
\* leaves the screen with the press
onPress(m, i, b) ==
    LET button == m.shown[i].buttons[b]
        closed == [m EXCEPT !.shown = Remove(@, i)]
        called == IF button.onPress.set
                  THEN enqueue(closed, AlertItem(button.onPress.title,
                                                 button.onPress.message,
                                                 <<>>))
                  ELSE closed
    IN showNext([called EXCEPT !.isShowing = FALSE, !.currentAlert = <<>>])

showQueuedAlert(alert) ==
    /\ alertQueueManager' = enqueue(alertQueueManager, alert)
    /\ UNCHANGED <<state, persistedAuthToken, persistedUserData, deps,
                   parseCurrent, pc, args, result, calls, running, boot,
                   session>>

PressButton(i, b) ==
    /\ i \in 1..Len(alertQueueManager.shown)
    /\ b \in 1..Len(alertQueueManager.shown[i].buttons)
    /\ alertQueueManager' = onPress(alertQueueManager, i, b)
    /\ UNCHANGED <<state, persistedAuthToken, persistedUserData, deps,
                   parseCurrent, pc, args, result, calls, running, boot,
                   session>>

\* the dialog is closed without a button: no callback of the program runs
DismissAlert(i) ==
    /\ i \in 1..Len(alertQueueManager.shown)
    /\ alertQueueManager' = [alertQueueManager EXCEPT !.shown = Remove(@, i)]
    /\ UNCHANGED <<state, persistedAuthToken, persistedUserData, deps,
                   parseCurrent, pc, args, result, calls, running, boot,
                   session>>

CloseAlert ==
    \E i \in 1..Len(alertQueueManager.shown) :
        \/ DismissAlert(i)
        \/ \E b \in 1..Len(alertQueueManager.shown[i].buttons) : PressButton(i, b)

NextAlerts ==
    \/ \E alert \in AlertItems : showQueuedAlert(alert)
    \/ \E i \in 1..Len(alertQueueManager.shown) :
          \E b \in 1..Len(alertQueueManager.shown[i].buttons) : PressButton(i, b)
    \/ \E i \in 1..Len(alertQueueManager.shown) : DismissAlert(i)

SpecAlerts == Init /\ [][NextAlerts]_vars

\* every alert on the screen is closed sooner or later, by a button or not
SpecAlertsFair == SpecAlerts /\ WF_vars(CloseAlert)

\* the alerts AlertQueueManager holds: the one it is showing, then the queue
HeldAlerts ==
    (IF alertQueueManager.isShowing THEN alertQueueManager.currentAlert
     ELSE <<>>) \o alertQueueManager.queue
Queued(title, message) ==
    \E i \in 1..Len(alertQueueManager.queue) :
        /\ alertQueueManager.queue[i].title = title
        /\ alertQueueManager.queue[i].message = message
OnScreen(title, message) ==
    \E i \in 1..Len(alertQueueManager.shown) :
        /\ alertQueueManager.shown[i].title = title
        /\ alertQueueManager.shown[i].message = message

\* C37: every alert that enqueue accepted is shown sooner or later, provided
\* every alert on the screen is closed sooner or later, with a button or
\* without one: an alert waiting in the queue leads to that alert being on
\* the screen.
AcceptedIsShown ==
    \A title \in AlertTitles, message \in AlertMessages :
        Queued(title, message) ~> OnScreen(title, message)

\* C38: in every reachable state isShowing is true exactly when currentAlert
\* is set, at most one alert is on the screen and it is currentAlert, showNext
\* presents nothing while isShowing is true, and the alert being shown is not
\* in the queue as well.
OneAlertAtATime ==
    LET m == alertQueueManager IN
    /\ m.isShowing <=> m.currentAlert # <<>>
    /\ Len(m.shown) <= 1
    /\ \A i \in 1..Len(m.shown) :
          m.currentAlert # <<>> /\ SameAlert(m.shown[i], m.currentAlert[1])
    /\ m.isShowing => showNext(m) = m
    /\ \A i \in 1..Len(m.queue) :
          m.currentAlert # <<>> => ~SameAlert(m.queue[i], m.currentAlert[1])

\* an alert is on the screen while two more wait behind it
OneAlertAtATimeWitness ==
    /\ alertQueueManager.isShowing
    /\ Len(alertQueueManager.shown) = 1
    /\ Len(alertQueueManager.queue) = 2

\* C39: no two alerts among the shown alert and the queued alerts have the
\* same title and message, and enqueue of an alert with the title and the
\* message of one of them changes nothing.
NoDuplicateAlerts ==
    /\ \A i, j \in 1..Len(HeldAlerts) :
          i # j => ~SameAlert(HeldAlerts[i], HeldAlerts[j])
    /\ \A alert \in AlertItems :
          (\E i \in 1..Len(HeldAlerts) : SameAlert(HeldAlerts[i], alert))
              => enqueue(alertQueueManager, alert) = alertQueueManager

\* every title and message is held, so every enqueue is one of a duplicate,
\* and the alert shown has a button that enqueues it again
NoDuplicateAlertsWitness ==
    /\ alertQueueManager.isShowing
    /\ Len(alertQueueManager.queue) = 3
    /\ \E b \in 1..Len(alertQueueManager.shown[1].buttons) :
          /\ alertQueueManager.shown[1].buttons[b].onPress.set
          /\ SameAlert(alertQueueManager.shown[1].buttons[b].onPress,
                       alertQueueManager.currentAlert[1])

====
